---------------------------- MODULE Spec2Model ----------------------------
(***************************************************************************)
(* State-machine model of the bili-transcripts pipeline core:              *)
(*   - the incremental collector   (scripts/step1_fetch_metadata.py)       *)
(*   - the quota-rotating ASR batch processor (scripts/step3_asr_groq.py)  *)
(*   - the checkpoint writers of the stages (step1, step2, step3, step4_5) *)
(* Each subsystem has its own specification over the shared variables; the *)
(* variables of the other subsystems stay at their initial value.          *)
(***************************************************************************)
EXTENDS Integers, Sequences, FiniteSets, TLC

VARIABLES
    \* ---- collector (step1_fetch_metadata.py) ----
    remote,          \* the remote service: folder index -> listing of items
    output_file,     \* OUTPUT_PATH      (videos.json)
    progress_file,   \* PROGRESS_PATH    (.fetch_progress.json)
    last_scan_file,  \* LAST_SCAN_PATH   (.last_scan.json)
    cpc,             \* position of the collector process
    m,               \* locals of main()
    ff,              \* locals of fetch_folder()
    runs,            \* collector runs started so far
    edits            \* edits of the remote content so far

    ,
    \* ---- ASR batch processor (step3_asr_groq.py) ----
    queue,           \* the durations of the videos of asr_queue.json
    status_file,     \* STATUS_PATH (asr_status.json)
    apc,             \* position of the batch process
    asr,             \* locals of main(): st, current_key_idx, run_ok, ...
    now,             \* time.time()
    actr,            \* runs started, kills, clock ticks so far
    given,           \* history: videos ever given the status ok or no_speech
    denv,            \* the deterministic payload source and backend, when fixed

    \* ---- checkpoint writers (step1, step2, step3, step4, step4_5, step4_7) ----
    disk,            \* path -> file
    spc,             \* position of the save in progress
    sv,              \* the save in progress: writer, versions, buffer
    nsaves           \* saves started so far

    ,
    \* ---- the loop of the batch processor, counted (step3_asr_groq.py) ----
    bpc,             \* position of the batch process
    bt               \* idx, run_ok, successes not yet in the checkpoint, ...

    ,
    \* ---- fetch_folder reading one page (step1_fetch_metadata.py) ----
    sc               \* the answer to the request, the locals, the position

    ,
    \* ---- a run loading one of its checkpoint files (step1, step3) ----
    ld               \* the loader, the file, the position, the value loaded

    ,
    \* ---- an LLM-backed stage (step4_5_filter, step4_classify_asr, step4_7_polish) ----
    llm              \* the stage, its progress map, its output, the call in progress

    ,
    \* ---- two pipeline instances in refresh_cookie (pipeline.py) ----
    ck               \* the credential file, the lock, each instance's position and locals

    ,
    \* ---- the quota check of one video over a pool of three keys (step3_asr_groq.py) ----
    pk               \* the usage map, the current key, the video's duration, the key chosen

    ,
    \* ---- a stage reading the transcript of one video (step5_generate_docs, step4_5_filter, step4_7_polish) ----
    rt               \* the stage, the files of the three tiers, what read_transcript returned

    ,
    \* ---- one end-to-end run of the pipeline (pipeline.py) ----
    pl               \* the position of main(), results, the stages run, the summary, the exit

collVars == <<remote, output_file, progress_file, last_scan_file, cpc, m, ff, runs, edits>>

asrVars == <<queue, status_file, apc, asr, now, actr, given, denv>>

saveVars == <<disk, spc, sv, nsaves>>

batchVars == <<bpc, bt>>

scanVars == <<sc>>

loadVars == <<ld>>

llmVars == <<llm>>

credVars == <<ck>>

pickVars == <<pk>>

readVars == <<rt>>

pipeVars == <<pl>>

nonCollVars == <<asrVars, saveVars, batchVars, scanVars, loadVars, llmVars, credVars, pickVars, readVars, pipeVars>>

nonAsrVars == <<collVars, saveVars, batchVars, scanVars, loadVars, llmVars, credVars, pickVars, readVars, pipeVars>>

nonSaveVars == <<collVars, asrVars, batchVars, scanVars, loadVars, llmVars, credVars, pickVars, readVars, pipeVars>>

nonBatchVars == <<collVars, asrVars, saveVars, scanVars, loadVars, llmVars, credVars, pickVars, readVars, pipeVars>>

nonScanVars == <<collVars, asrVars, saveVars, batchVars, loadVars, llmVars, credVars, pickVars, readVars, pipeVars>>

nonLoadVars == <<collVars, asrVars, saveVars, batchVars, scanVars, llmVars, credVars, pickVars, readVars, pipeVars>>

nonLlmVars == <<collVars, asrVars, saveVars, batchVars, scanVars, loadVars, credVars, pickVars, readVars, pipeVars>>

nonCredVars == <<collVars, asrVars, saveVars, batchVars, scanVars, loadVars, llmVars, pickVars, readVars, pipeVars>>

nonPickVars == <<collVars, asrVars, saveVars, batchVars, scanVars, loadVars, llmVars, credVars, readVars, pipeVars>>

nonReadVars == <<collVars, asrVars, saveVars, batchVars, scanVars, loadVars, llmVars, credVars, pickVars, pipeVars>>

nonPipeVars == <<collVars, asrVars, saveVars, batchVars, scanVars, loadVars, llmVars, credVars, pickVars, readVars>>

vars == <<collVars, asrVars, saveVars, batchVars, scanVars, loadVars, llmVars, credVars, pickVars, readVars, pipeVars>>

(***************************************************************************)
(* ASR batch processor: data and pure functions (step3_asr_groq.py)        *)
(***************************************************************************)
\* videos in asr_queue.json
MaxItems == 3
\* videos in asr_queue.json when the payload source and backend are fixed
MaxDetItems == 4
MaxASRRuns == 2
MaxKills == 1
MaxTicks == 1
\* item attempts (downloads started) over all runs of a behaviour
MaxAttempts == 3

MAX_DURATION_SEC == 1800
HOURLY_LIMIT_PER_KEY == 6000
DAILY_LIMIT_PER_KEY == 25000
HOUR == 3600
DAY == 86400
CHECKPOINT_EVERY == 20
DL_FAIL_LIMIT == 10

\* find_available_key returns (None, None) when no key has quota.
None == -1

\* asr_queue.json: bvids are the positions of the raw list; a duration above
\* MAX_DURATION_SEC is dropped by main() before anything else.
Items == (1..MaxItems) \cup (1..MaxDetItems)

Durations == {1200, 1800, 2400}

RECURSIVE FilterQueue(_, _)
FilterQueue(raw, k) ==
    IF k > Len(raw) THEN <<>>
    ELSE IF raw[k] <= MAX_DURATION_SEC
         THEN <<[bvid |-> k, duration |-> raw[k]]>> \o FilterQueue(raw, k + 1)
         ELSE FilterQueue(raw, k + 1)

\* videos, as main() holds it after the filter
Vids == FilterQueue(queue, 1)

\* API_KEYS: a key is its text before the last 8 characters and those 8.
API_KEYS == << [head |-> "gsk_one_", tail |-> "aaaaaaaa"],
               [head |-> "gsk_two_", tail |-> "bbbbbbbb"] >>

key_hash(key) == key.tail

KeyHashes == {key_hash(API_KEYS[i]) : i \in 1..Len(API_KEYS)}

NoUsage ==
    [present |-> FALSE, hourly_audio |-> 0, hour_start |-> 0,
     daily_audio |-> 0, day_start |-> 0]

Usage(h, d) ==
    [present |-> TRUE, hourly_audio |-> h, hour_start |-> 0,
     daily_audio |-> d, day_start |-> 0]

\* usage a key can have on record when a batch starts
UsageLevels == {NoUsage, Usage(4800, 4800), Usage(2400, 24000)}

Outcomes == {"ok", "no_speech", "error_download", "error_transcribe"}

\* charged is history: how often the cost of a video was added to the usage
\* counters this status map carries
NoStatus ==
    [exists |-> FALSE,
     processed |-> [b \in Items |-> "none"],
     key_usage |-> [k \in KeyHashes |-> NoUsage],
     charged |-> [b \in Items |-> 0]]

\* A run that starts from the default status whatever the file holds.
load_status_fresh(file) ==
    [processed |-> NoStatus.processed, key_usage |-> NoStatus.key_usage,
     charged |-> NoStatus.charged]

\* load_status
load_status(file) ==
    [processed |-> file.processed, key_usage |-> file.key_usage,
     charged |-> file.charged]

save_status(st) ==
    [exists |-> TRUE, processed |-> st.processed, key_usage |-> st.key_usage,
     charged |-> st.charged]

\* a checkpoint file with nothing processed and the usage u on record
FreshCheckpoint(u) == [save_status(load_status(NoStatus)) EXCEPT !.key_usage = u]

\* A get_key_usage that empties both windows as soon as the hour is over.
get_key_usage_both(key_usage, kh, t) ==
    LET ku0 == IF key_usage[kh].present THEN key_usage[kh]
               ELSE [present |-> TRUE, hourly_audio |-> 0, hour_start |-> t,
                     daily_audio |-> 0, day_start |-> t]
        ku1 == IF t - ku0.hour_start >= HOUR
               THEN [ku0 EXCEPT !.hourly_audio = 0, !.hour_start = t,
                                !.daily_audio = 0, !.day_start = t]
               ELSE ku0
    IN  [key_usage EXCEPT ![kh] = ku1]

\* get_key_usage: creates the entry, then resets a counter whose period elapsed.
get_key_usage(key_usage, kh, t) ==
    LET ku0 == IF key_usage[kh].present THEN key_usage[kh]
               ELSE [present |-> TRUE, hourly_audio |-> 0, hour_start |-> t,
                     daily_audio |-> 0, day_start |-> t]
        ku1 == IF t - ku0.hour_start >= HOUR
               THEN [ku0 EXCEPT !.hourly_audio = 0, !.hour_start = t] ELSE ku0
        ku2 == IF t - ku1.day_start >= DAY
               THEN [ku1 EXCEPT !.daily_audio = 0, !.day_start = t] ELSE ku1
    IN  [key_usage EXCEPT ![kh] = ku2]

key_has_quota_hourly_only(ku, dur) ==
    ku.hourly_audio + dur <= HOURLY_LIMIT_PER_KEY

\* key_has_quota, on the entry get_key_usage returned
key_has_quota(ku, dur) ==
    /\ ku.hourly_audio + dur <= HOURLY_LIMIT_PER_KEY
    /\ ku.daily_audio + dur <= DAILY_LIMIT_PER_KEY

find_available_key_stay(key_usage, start_idx, dur, t) ==
    [idx |-> start_idx % Len(API_KEYS), key_usage |-> key_usage]

\* A search that starts at the first key of the pool whatever start_idx is.
RECURSIVE FindInFromFirst(_, _, _, _, _, _)
FindInFromFirst(pool, key_usage, start_idx, dur, t, i) ==
    IF i >= Len(pool) THEN [idx |-> None, key_usage |-> key_usage]
    ELSE LET idx == i % Len(pool)
             kh  == key_hash(pool[idx + 1])
             ku  == get_key_usage(key_usage, kh, t)
         IN  IF key_has_quota(ku[kh], dur)
             THEN [idx |-> idx, key_usage |-> ku]
             ELSE FindInFromFirst(pool, ku, start_idx, dur, t, i + 1)

\* lines 101-106: the loop of find_available_key over the keys of `pool`,
\* from its pass i on
RECURSIVE FindIn(_, _, _, _, _, _)
FindIn(pool, key_usage, start_idx, dur, t, i) ==
    IF i >= Len(pool) THEN [idx |-> None, key_usage |-> key_usage]
    ELSE LET idx == (start_idx + i) % Len(pool)
             kh  == key_hash(pool[idx + 1])
             ku  == get_key_usage(key_usage, kh, t)
         IN  IF key_has_quota(ku[kh], dur)
             THEN [idx |-> idx, key_usage |-> ku]
             ELSE FindIn(pool, ku, start_idx, dur, t, i + 1)

FindFrom(key_usage, start_idx, dur, t, i) ==
    FindIn(API_KEYS, key_usage, start_idx, dur, t, i)

\* find_available_key: the index found (or None) and st["key_usage"] as the
\* key_has_quota invocations leave it
find_available_key(key_usage, start_idx, dur, t) ==
    FindFrom(key_usage, start_idx, dur, t, 0)

\* lines 248-251: the closing log reads the usage of every key with
\* get_key_usage, which creates missing entries and resets elapsed periods
RECURSIVE log_key_usage(_, _, _)
log_key_usage(key_usage, i, t) ==
    IF i > Len(API_KEYS) THEN key_usage
    ELSE log_key_usage(get_key_usage(key_usage, key_hash(API_KEYS[i]), t), i + 1, t)

IdleASR ==
    [st |-> load_status(NoStatus), current_key_idx |-> 0, run_ok |-> 0,
     consecutive_dl_fails |-> 0, idx |-> 0, last |-> "none"]

NoCounts == [runs |-> 0, kills |-> 0, ticks |-> 0, attempts |-> 0]

Kinds == {"text", "empty", "error", "dl_fail"}

FreeEnv(ckpt0) ==
    [on |-> FALSE, kind |-> [b \in Items |-> "text"], phase |-> "ref",
     ref |-> NoStatus.processed, ckpt0 |-> ckpt0]

\* A loop that never takes the periodic checkpoint.
checkpoint_due_never(run_ok) == FALSE

\* line 238: `if run_ok % 20 == 0 and run_ok > 0`
checkpoint_due(run_ok) == run_ok % CHECKPOINT_EVERY = 0 /\ run_ok > 0

\* The locals of main() that count: the position in the queue, run_ok, the
\* download-failure streak; ndone: the videos at the head of the queue that
\* the checkpoint read at the start holds as ok or no_speech; unsaved: the
\* videos whose status "ok" is in st and not in the file; lost: the value of
\* unsaved when the process was killed; last_set: the position of the last
\* video this run assigned a status to (0: none yet).
IdleBatch ==
    [idx |-> 0, run_ok |-> 0, consecutive_dl_fails |-> 0, ndone |-> 0,
     unsaved |-> 0, lost |-> 0, last_set |-> 0]

BatchIdle == bpc = "idle" /\ bt = IdleBatch

\* no page is being read on its own
ScanIdle == sc = [pc |-> "idle"]

\* no checkpoint file is being loaded on its own
LoadIdle == ld = [pc |-> "idle"]

\* the pipeline at rest: what the other specifications hold it at
PipeIdle == pl = [pc |-> "idle"]

\* no transcript is being read on its own
ReadIdle == rt = [pc |-> "idle"]

\* no quota check is running on its own
PickIdle == pk = [pc |-> "idle"]

\* no instance is refreshing the credential on its own
CredIdle == ck = [pc |-> "idle"]

\* no LLM-backed stage is running on its own
LlmIdle == llm = [pc |-> "idle"]

\* the batch processor at rest: what the other specifications hold it at
AsrIdle ==
    /\ queue = <<>>
    /\ status_file = NoStatus
    /\ apc = "idle"
    /\ asr = IdleASR
    /\ now = 0
    /\ actr = NoCounts
    /\ given = {}
    /\ denv = FreeEnv(NoStatus)

(***************************************************************************)
(* Checkpoint writers of the stages: one save, step by step, with a kill   *)
(* of the process possible between any two steps.                          *)
(*   step1 atomic_write_json (lines 72-80), step3 save_status (67-71):     *)
(*       open(tmp, "w"); json.dump; [flush; fsync;] close; replace         *)
(*   step2 save_status (63-65), step4_5 (146-154), step4 (189-197),        *)
(*   step4_7 (165-173):  open(target, "w"); json.dump; close               *)
(***************************************************************************)
\* saves started in a behaviour
MaxSaves == 3
\* pieces in which json.dump hands a document to the file object
NChunks == 2

Writers ==
    { [name |-> "step1.atomic_write_json", target |-> "videos.json",
       tmp |-> "videos.json.tmp", syncs |-> TRUE],
      [name |-> "step3.save_status", target |-> "asr_status.json",
       tmp |-> "asr_status.tmp", syncs |-> FALSE],
      [name |-> "step2.save_status", target |-> "subtitle_status.json",
       tmp |-> "", syncs |-> FALSE],
      [name |-> "step4_5.main", target |-> ".progress_suitability.json",
       tmp |-> "", syncs |-> FALSE],
      [name |-> "step4.main", target |-> ".progress_asr.json",
       tmp |-> "", syncs |-> FALSE],
      [name |-> "step4_7.main", target |-> ".progress_polish.json",
       tmp |-> "", syncs |-> FALSE] }

Paths == ({wr.target : wr \in Writers} \cup {wr.tmp : wr \in Writers}) \ {""}

\* a file holds the first n chunks of version ver of its document
NoFile == [exists |-> FALSE, ver |-> 0, n |-> 0]

Truncated(ver) == [exists |-> TRUE, ver |-> ver, n |-> 0]

Complete(ver) == [exists |-> TRUE, ver |-> ver, n |-> NChunks]

open_path_target(wr) == wr.target

\* the path the writer opens with mode "w"
open_path(wr) == IF wr.tmp # "" THEN wr.tmp ELSE wr.target

NoSave ==
    [writer |-> CHOOSE wr \in Writers : wr.name = "step1.atomic_write_json",
     old |-> NoFile, new_ver |-> 0, dumped |-> 0, buffered |-> 0]

\* the writers at rest: what the other specifications hold them at
SaveIdle ==
    /\ disk = [p \in Paths |-> NoFile]
    /\ spc = "idle"
    /\ sv = NoSave
    /\ nsaves = 0

-----------------------------------------------------------------------------
(* Bounds of the model *)

\* collector runs started in one behaviour
MaxRuns == 2
\* edits of the remote content (a favourite added or removed) in one behaviour
MaxEdits == 1
\* items in one folder of the remote
MaxListing == 2

\* items the remote returns per page (the request asks for PAGE_SIZE = 20)
PageLen == 1

-----------------------------------------------------------------------------
(* Collector: data *)

Videos == {"BV1", "BV2", "BV3"}

\* The folders (buckets) of the account, in the order get_all_folders lists them.
FolderIds == {1, 2}

\* The insertion marker the remote reports for a video.
FavTime(v) ==
    CASE v = "BV1" -> 1 [] v = "BV2" -> 2 [] v = "BV3" -> 3 [] v = "BV4" -> 4
      [] OTHER -> 5

INCREMENTAL_STOP_THRESHOLD == 3

\* errors >= 5 abandons the folder
ERROR_LIMIT == 5

Max(a, b) == IF a >= b THEN a ELSE b

Min(a, b) == IF a <= b THEN a ELSE b

SeqRange(s) == {s[k] : k \in 1..Len(s)}

\* Listings without repetition of at most MaxListing videos.
Listings ==
    UNION {{s \in [1..n -> Videos] : \A a, b \in 1..n : a # b => s[a] # s[b]}
           : n \in 0..MaxListing}

\* A folder lists its videos newest first (descending insertion marker).
NewestFirst(listing) ==
    \A a, b \in 1..Len(listing) : a < b => FavTime(listing[a]) > FavTime(listing[b])

RemoteItem(v) == [bvid |-> v, fav_time |-> FavTime(v)]

\* fetch_page: page `page` (1-based) of the folder's listing, and has_more.
PageMedias(listing, page) ==
    LET lo == (page - 1) * PageLen + 1
        hi == Min(page * PageLen, Len(listing))
    IN  IF lo > Len(listing) THEN <<>>
        ELSE [k \in 1..(hi - lo + 1) |-> RemoteItem(listing[lo + k - 1])]

\* A remote that never reports a further page.
PageHasMoreNever(listing, page) == FALSE

\* has_more of the answer
PageHasMore(listing, page) == page * PageLen < Len(listing)

\* parse_video_item: the fields of the standardised video object the model keeps.
parse_video_item(item, folder_title) ==
    [bvid |-> item.bvid, fav_time |-> item.fav_time, folder |-> folder_title]

Bvids(videos) == {videos[k].bvid : k \in 1..Len(videos)}

NoDuplicates(videos) ==
    \A a, b \in 1..Len(videos) : a # b => videos[a].bvid # videos[b].bvid

\* Files: a record with an `exists` flag; a missing file keeps default fields.
\* videos.json: the videos, and of its meta the mode, new_videos, cookie_expired.
NoOutput ==
    [exists |-> FALSE, videos |-> <<>>, incremental |-> FALSE, new_videos |-> 0,
     cookie_expired |-> FALSE]

NoProgress ==
    [exists |-> FALSE, videos |-> <<>>, next_page |-> 1, folder_idx |-> 0,
     seen_bvids |-> {}]

NoLastScan == [exists |-> FALSE, latest_fav_time |-> 0, total_known |-> 0]

\* load_progress: the saved progress, or the default for a missing file.
load_progress(file) ==
    IF file.exists
    THEN [videos |-> file.videos, next_page |-> file.next_page,
          folder_idx |-> file.folder_idx, seen_bvids |-> file.seen_bvids]
    ELSE [videos |-> <<>>, next_page |-> 1, folder_idx |-> 0, seen_bvids |-> {}]

\* An incremental run that starts from an empty known-set.
load_existing_videos_empty(file) == <<>>

\* load_existing_videos
load_existing_videos(file) == IF file.exists THEN file.videos ELSE <<>>

NoLocals ==
    [videos |-> <<>>, page |-> 1, errors |-> 0, consecutive_known |-> 0,
     should_stop_after_page |-> FALSE, expired |-> FALSE]

\* fetch_folder returns (videos, page, ..., cookie_expired); its other locals end.
Returned(videos, page, expired) ==
    [NoLocals EXCEPT !.videos = videos, !.page = page, !.expired = expired]

\* clean is history: the run is in full mode, found no saved progress, got
\* the list of folders, and no request for a page has failed so far
IdleMain ==
    [is_incremental |-> FALSE, folders |-> <<>>, all_videos |-> <<>>,
     seen_bvids |-> {}, cutoff_fav_time |-> 0, start_folder_idx |-> 0,
     start_page |-> 1, cookie_expired |-> FALSE, new_count |-> 0,
     max_fav_time |-> 0, i |-> 0, exit_code |-> 0, clean |-> FALSE]

-----------------------------------------------------------------------------
(* Collector: fetch_folder's scan of one page *)

\* A fetch_folder that forgets the membership test of line 223.
IsSeenNever(bvid, seen_bvids) == FALSE

\* line 223: `if bvid in seen_bvids: continue`
IsSeen(bvid, seen_bvids) == bvid \in seen_bvids

\* lines 209-228: the loop over the items of a page, from item k on.
\* s = [seen_bvids, videos, consecutive_known, should_stop_after_page]
\* A loop over the items that breaks as soon as the stop streak is reached.
RECURSIVE ScanItemsBreak(_, _, _, _, _, _)
ScanItemsBreak(medias, k, s, incremental, cutoff_fav_time, folder_title) ==
    IF k > Len(medias) \/ s.should_stop_after_page THEN s
    ELSE
      LET item == medias[k] IN
      IF incremental /\ item.bvid \in s.seen_bvids /\ item.fav_time <= cutoff_fav_time
      THEN ScanItemsBreak(medias, k + 1,
             [s EXCEPT !.consecutive_known = @ + 1,
                       !.should_stop_after_page =
                           @ \/ (s.consecutive_known + 1 >= INCREMENTAL_STOP_THRESHOLD)],
             incremental, cutoff_fav_time, folder_title)
      ELSE IF item.bvid \in s.seen_bvids
      THEN ScanItemsBreak(medias, k + 1, [s EXCEPT !.consecutive_known = 0],
             incremental, cutoff_fav_time, folder_title)
      ELSE ScanItemsBreak(medias, k + 1,
             [s EXCEPT !.consecutive_known = 0,
                       !.seen_bvids = @ \cup {item.bvid},
                       !.videos = Append(@, parse_video_item(item, folder_title))],
             incremental, cutoff_fav_time, folder_title)

RECURSIVE ScanItems(_, _, _, _, _, _)
ScanItems(medias, k, s, incremental, cutoff_fav_time, folder_title) ==
    IF k > Len(medias) THEN s
    ELSE
      LET item == medias[k] IN
      IF incremental /\ item.bvid \in s.seen_bvids /\ item.fav_time <= cutoff_fav_time
      THEN ScanItems(medias, k + 1,
             [s EXCEPT !.consecutive_known = @ + 1,
                       !.should_stop_after_page =
                           @ \/ (s.consecutive_known + 1 >= INCREMENTAL_STOP_THRESHOLD)],
             incremental, cutoff_fav_time, folder_title)
      ELSE IF IsSeen(item.bvid, s.seen_bvids)
      THEN ScanItems(medias, k + 1, [s EXCEPT !.consecutive_known = 0],
             incremental, cutoff_fav_time, folder_title)
      ELSE ScanItems(medias, k + 1,
             [s EXCEPT !.consecutive_known = 0,
                       !.seen_bvids = @ \cup {item.bvid},
                       !.videos = Append(@, parse_video_item(item, folder_title))],
             incremental, cutoff_fav_time, folder_title)

\* The folder main() is reading: folders[i], 0-based i.
CurFolder == m.folders[m.i + 1]

-----------------------------------------------------------------------------
(* Collector: actions *)

CollInit ==
    /\ remote \in [FolderIds -> {l \in Listings : NewestFirst(l)}]
    /\ output_file = NoOutput
    /\ progress_file = NoProgress
    /\ last_scan_file = NoLastScan
    /\ cpc = "idle"
    /\ m = IdleMain
    /\ ff = NoLocals
    /\ runs = 0
    /\ edits = 0
    /\ AsrIdle
    /\ SaveIdle
    /\ BatchIdle
    /\ ScanIdle
    /\ LoadIdle
    /\ PipeIdle
    /\ ReadIdle
    /\ PickIdle
    /\ CredIdle
    /\ LlmIdle

\* the collector at rest: what the other specifications hold it at
CollIdle ==
    /\ remote = [f \in FolderIds |-> <<>>]
    /\ output_file = NoOutput
    /\ progress_file = NoProgress
    /\ last_scan_file = NoLastScan
    /\ cpc = "idle"
    /\ m = IdleMain
    /\ ff = NoLocals
    /\ runs = 0
    /\ edits = 0

\* The user adds a favourite at the head of a folder, or removes one.
RemoteEdit ==
    /\ cpc = "idle"
    /\ edits < MaxEdits
    /\ edits' = edits + 1
    /\ \E f \in FolderIds :
         \/ \E v \in Videos \ SeqRange(remote[f]) :
              /\ Len(remote[f]) < MaxListing
              /\ remote' = [remote EXCEPT ![f] = <<v>> \o @]
         \/ \E k \in 1..Len(remote[f]) :
              remote' = [remote EXCEPT ![f] =
                           SubSeq(@, 1, k - 1) \o SubSeq(@, k + 1, Len(@))]
    /\ UNCHANGED <<output_file, progress_file, last_scan_file, cpc, m, ff, runs>>
    /\ UNCHANGED nonCollVars

\* main(), lines 255-310: mode, folder list, known-set, resume point.
\* full: the --full flag; folders_ok: get_all_folders got code 0.
StartRun(full, folders_ok) ==
    /\ cpc = "idle"
    /\ runs < MaxRuns
    /\ runs' = runs + 1
    /\ LET is_incremental == ~full /\ last_scan_file.exists
           folders == IF folders_ok
                      THEN [f \in FolderIds |-> [id |-> f, media_count |-> Len(remote[f])]]
                      ELSE <<>>
           progress == load_progress(progress_file)
           existing == load_existing_videos(output_file)
       IN  m' = [is_incremental |-> is_incremental,
                 folders |-> folders,
                 all_videos |-> IF is_incremental THEN existing ELSE progress.videos,
                 seen_bvids |-> IF is_incremental THEN Bvids(existing)
                                ELSE progress.seen_bvids,
                 cutoff_fav_time |-> IF is_incremental
                                     THEN last_scan_file.latest_fav_time ELSE 0,
                 start_folder_idx |-> IF is_incremental THEN 0 ELSE progress.folder_idx,
                 start_page |-> IF is_incremental THEN 1
                                ELSE IF progress.folder_idx > 0 \/ progress.next_page > 1
                                     THEN progress.next_page ELSE 1,
                 cookie_expired |-> FALSE,
                 new_count |-> 0,
                 max_fav_time |-> IF is_incremental
                                  THEN last_scan_file.latest_fav_time ELSE 0,
                 i |-> 0,
                 exit_code |-> 0,
                 clean |-> ~is_incremental /\ ~progress_file.exists /\ folders_ok]
    /\ cpc' = "for"
    /\ ff' = NoLocals
    /\ UNCHANGED <<remote, output_file, progress_file, last_scan_file, edits>>
    /\ UNCHANGED nonCollVars

\* lines 312-314: a folder before the resume point is skipped.
SkipFolder ==
    /\ cpc = "for"
    /\ m.i < Len(m.folders)
    /\ ~m.is_incremental /\ m.i < m.start_folder_idx
    /\ m' = [m EXCEPT !.i = @ + 1]
    /\ UNCHANGED <<remote, output_file, progress_file, last_scan_file, cpc, ff, runs, edits>>
    /\ UNCHANGED nonCollVars

\* lines 316-323: an empty folder is skipped (start_page is consumed).
EmptyFolder ==
    /\ cpc = "for"
    /\ m.i < Len(m.folders)
    /\ ~(~m.is_incremental /\ m.i < m.start_folder_idx)
    /\ CurFolder.media_count = 0
    /\ m' = [m EXCEPT !.i = @ + 1, !.start_page = 1]
    /\ UNCHANGED <<remote, output_file, progress_file, last_scan_file, cpc, ff, runs, edits>>
    /\ UNCHANGED nonCollVars

\* lines 316-328 and 163-167: fetch_folder is called.
EnterFolder ==
    /\ cpc = "for"
    /\ m.i < Len(m.folders)
    /\ ~(~m.is_incremental /\ m.i < m.start_folder_idx)
    /\ CurFolder.media_count # 0
    /\ ff' = [NoLocals EXCEPT
                !.page = IF ~m.is_incremental /\ m.i = m.start_folder_idx
                         THEN m.start_page ELSE 1]
    /\ m' = [m EXCEPT !.start_page = 1]
    /\ cpc' = "fetch"
    /\ UNCHANGED <<remote, output_file, progress_file, last_scan_file, runs, edits>>
    /\ UNCHANGED nonCollVars

\* lines 200-240: what fetch_folder does with an answer of code 0, given its
\* locals loc: the locals and seen_bvids afterwards, and whether the loop goes
\* on to request another page
PageStep(medias, has_more, loc, seen_bvids, incremental, cutoff_fav_time, folder_title) ==
    LET s == ScanItems(medias, 1,
               [seen_bvids |-> seen_bvids, videos |-> loc.videos,
                consecutive_known |-> loc.consecutive_known,
                should_stop_after_page |-> loc.should_stop_after_page],
               incremental, cutoff_fav_time, folder_title)
    IN  IF medias = <<>>
        THEN [again |-> FALSE, seen_bvids |-> seen_bvids,
              ff |-> Returned(loc.videos, loc.page, FALSE)]
        ELSE IF s.should_stop_after_page
        THEN [again |-> FALSE, seen_bvids |-> s.seen_bvids,
              ff |-> Returned(s.videos, loc.page, FALSE)]
        ELSE IF has_more
        THEN [again |-> TRUE, seen_bvids |-> s.seen_bvids,
              ff |-> [loc EXCEPT !.errors = 0, !.videos = s.videos,
                                 !.consecutive_known = s.consecutive_known,
                                 !.page = @ + 1]]
        ELSE [again |-> FALSE, seen_bvids |-> s.seen_bvids,
              ff |-> Returned(s.videos, loc.page + 1, FALSE)]

\* lines 200-240: a page came back with code 0.
ReadPage ==
    LET r == PageStep(PageMedias(remote[CurFolder.id], ff.page),
                      PageHasMore(remote[CurFolder.id], ff.page),
                      ff, m.seen_bvids, m.is_incremental, m.cutoff_fav_time,
                      CurFolder.id)
    IN  /\ ff' = r.ff
        /\ m' = [m EXCEPT !.seen_bvids = r.seen_bvids]
        /\ cpc' = IF r.again THEN "fetch" ELSE "returned"

\* lines 171-172, 200-242: fetch_page answers with code 0.
FetchPageOk ==
    /\ cpc = "fetch"
    /\ ReadPage
    /\ UNCHANGED <<remote, output_file, progress_file, last_scan_file, runs, edits>>
    /\ UNCHANGED nonCollVars

\* lines 173-175, 193-198: a non-zero code other than -403 and -101.
FetchPageError ==
    /\ cpc = "fetch"
    /\ IF ff.errors + 1 >= ERROR_LIMIT
       THEN ff' = Returned(ff.videos, ff.page, FALSE) /\ cpc' = "returned"
       ELSE ff' = [ff EXCEPT !.errors = @ + 1] /\ cpc' = "fetch"
    /\ m' = [m EXCEPT !.clean = FALSE]
    /\ UNCHANGED <<remote, output_file, progress_file, last_scan_file, runs, edits>>
    /\ UNCHANGED nonCollVars

\* A fetch_folder that returns nothing of the folder on code -101.
FetchPageAuthDrop ==
    /\ cpc = "fetch"
    /\ ff' = Returned(<<>>, ff.page, TRUE)
    /\ cpc' = "returned"
    /\ m' = [m EXCEPT !.clean = FALSE]
    /\ UNCHANGED <<remote, output_file, progress_file, last_scan_file, runs, edits>>
    /\ UNCHANGED nonCollVars

\* lines 190-192: code -101, the cookie expired.
FetchPageAuth ==
    /\ cpc = "fetch"
    /\ ff' = Returned(ff.videos, ff.page, TRUE)
    /\ cpc' = "returned"
    /\ m' = [m EXCEPT !.clean = FALSE]
    /\ UNCHANGED <<remote, output_file, progress_file, last_scan_file, runs, edits>>
    /\ UNCHANGED nonCollVars

\* lines 176-182: code -403, keys refreshed, the second fetch answers -101.
FetchPageWbiAuth ==
    /\ cpc = "fetch"
    /\ ff' = Returned(ff.videos, ff.page, TRUE)
    /\ cpc' = "returned"
    /\ m' = [m EXCEPT !.clean = FALSE]
    /\ UNCHANGED <<remote, output_file, progress_file, last_scan_file, runs, edits>>
    /\ UNCHANGED nonCollVars

\* lines 176-189: code -403, the second fetch answers another non-zero code.
FetchPageWbiError ==
    /\ cpc = "fetch"
    /\ IF ff.errors + 1 >= ERROR_LIMIT
       THEN ff' = Returned(ff.videos, ff.page, FALSE) /\ cpc' = "returned"
       ELSE ff' = [ff EXCEPT !.errors = @ + 1] /\ cpc' = "fetch"
    /\ m' = [m EXCEPT !.clean = FALSE]
    /\ UNCHANGED <<remote, output_file, progress_file, last_scan_file, runs, edits>>
    /\ UNCHANGED nonCollVars

\* lines 176-183, 200-242: code -403, the second fetch answers code 0.
FetchPageWbiOk ==
    /\ cpc = "fetch"
    /\ ReadPage
    /\ UNCHANGED <<remote, output_file, progress_file, last_scan_file, runs, edits>>
    /\ UNCHANGED nonCollVars

\* lines 244-246: a timeout; fetch_folder sleeps 10 s, errors is not touched.
FetchPageTimeout ==
    /\ cpc = "fetch"
    /\ cpc' = "sleep"
    /\ UNCHANGED <<remote, output_file, progress_file, last_scan_file, m, ff, runs, edits>>
    /\ UNCHANGED nonCollVars

\* line 247: continue; the same page is requested again.
RetryAfterTimeout ==
    /\ cpc = "sleep"
    /\ cpc' = "fetch"
    /\ UNCHANGED <<remote, output_file, progress_file, last_scan_file, m, ff, runs, edits>>
    /\ UNCHANGED nonCollVars

\* lines 248-250: any other exception ends the folder, not flagged as expired.
FetchPageException ==
    /\ cpc = "fetch"
    /\ ff' = Returned(ff.videos, ff.page, FALSE)
    /\ cpc' = "returned"
    /\ m' = [m EXCEPT !.clean = FALSE]
    /\ UNCHANGED <<remote, output_file, progress_file, last_scan_file, runs, edits>>
    /\ UNCHANGED nonCollVars

\* line 334-335: the newest fav_time among the new videos, not below `start`.
RECURSIVE MaxFavTime(_, _)
MaxFavTime(videos, start) ==
    IF videos = <<>> THEN start
    ELSE MaxFavTime(Tail(videos), Max(start, Head(videos).fav_time))

\* lines 329-353: fetch_folder returned.
AfterFolder ==
    /\ cpc = "returned"
    /\ LET all_videos == m.all_videos \o ff.videos IN
       /\ m' = [m EXCEPT !.all_videos = all_videos,
                         !.new_count = @ + Len(ff.videos),
                         !.max_fav_time = MaxFavTime(ff.videos, @),
                         !.cookie_expired = ff.expired,
                         !.i = IF ff.expired THEN @ ELSE @ + 1]
       /\ progress_file' =
            IF ~m.is_incremental
            THEN [exists |-> TRUE, videos |-> all_videos, next_page |-> 1,
                  folder_idx |-> m.i + 1, seen_bvids |-> m.seen_bvids]
            ELSE progress_file
    /\ cpc' = IF ff.expired THEN "write" ELSE "for"
    /\ ff' = NoLocals
    /\ UNCHANGED <<remote, output_file, last_scan_file, runs, edits>>
    /\ UNCHANGED nonCollVars

\* line 312: the loop over the folders is over.
FoldersDone ==
    /\ cpc = "for"
    /\ m.i >= Len(m.folders)
    /\ cpc' = "write"
    /\ UNCHANGED <<remote, output_file, progress_file, last_scan_file, m, ff, runs, edits>>
    /\ UNCHANGED nonCollVars

\* A run that saves the cursor zero.
LatestFavTimeZero(max_fav_time, all_videos) == 0

\* lines 378-380: the cursor to save.
LatestFavTime(max_fav_time, all_videos) ==
    IF max_fav_time = 0 /\ all_videos # <<>>
    THEN MaxFavTime(all_videos, 0)
    ELSE max_fav_time

\* lines 355-386: the result, the progress file, the scan state, the exit code.
Finish ==
    /\ cpc = "write"
    /\ output_file' = [exists |-> TRUE, videos |-> m.all_videos,
                        incremental |-> m.is_incremental, new_videos |-> m.new_count,
                        cookie_expired |-> m.cookie_expired]
    /\ progress_file' = IF ~m.cookie_expired /\ progress_file.exists
                        THEN NoProgress ELSE progress_file
    /\ last_scan_file' =
         [exists |-> TRUE,
          latest_fav_time |-> LatestFavTime(m.max_fav_time, m.all_videos),
          total_known |-> Len(m.all_videos)]
    /\ m' = [IdleMain EXCEPT !.exit_code = IF m.cookie_expired THEN 1 ELSE 0]
    /\ cpc' = "idle"
    /\ UNCHANGED <<remote, ff, runs, edits>>
    /\ UNCHANGED nonCollVars

CollNext ==
    \/ RemoteEdit
    \/ \E full \in BOOLEAN, folders_ok \in BOOLEAN : StartRun(full, folders_ok)
    \/ SkipFolder
    \/ EmptyFolder
    \/ EnterFolder
    \/ FetchPageOk
    \/ FetchPageError
    \/ FetchPageAuth
    \/ FetchPageWbiAuth
    \/ FetchPageWbiError
    \/ FetchPageWbiOk
    \/ FetchPageTimeout
    \/ RetryAfterTimeout
    \/ FetchPageException
    \/ AfterFolder
    \/ FoldersDone
    \/ Finish

SpecCollector == CollInit /\ [][CollNext]_vars

\* The collector process keeps running: it takes its next step whenever it
\* has one.  What the remote answers to a request is not constrained.
SpecCollectorLive == SpecCollector /\ WF_vars(CollNext)

(***************************************************************************)
(* ASR batch processor: main() of step3_asr_groq.py                        *)
(***************************************************************************)
InitialCheckpoints ==
    {NoStatus} \cup
    {FreshCheckpoint(u) : u \in [KeyHashes -> UsageLevels]}

ASRInit ==
    /\ queue \in [1..MaxItems -> Durations]
    /\ status_file \in InitialCheckpoints
    /\ apc = "idle"
    /\ asr = IdleASR
    /\ now = 0
    /\ actr = NoCounts
    /\ given = {}
    /\ denv = FreeEnv(status_file)
    /\ CollIdle
    /\ SaveIdle
    /\ BatchIdle
    /\ ScanIdle
    /\ LoadIdle
    /\ PipeIdle
    /\ ReadIdle
    /\ PickIdle
    /\ CredIdle
    /\ LlmIdle

Cur == Vids[asr.idx]

kh == key_hash(API_KEYS[asr.current_key_idx + 1])

IsDoneOkOnly(status) == status = "ok"

\* line 167: the statuses that make the loop skip a video
IsDone(status) == status \in {"ok", "no_speech"}

\* the payload source and the backend answer freely, or as fixed at the start
Answers(kind) == denv.on => denv.kind[Cur.bvid] = kind

Actuals(dur) == IF denv.on THEN {dur} ELSE {dur, dur + 600}

\* lines 140-163
StartASR ==
    /\ apc \in {"idle", "done"}
    /\ IF denv.on THEN apc = "idle" ELSE actr.runs < MaxASRRuns
    /\ LET st == load_status(status_file)
           r  == find_available_key(st.key_usage, 0, 0, now)
       IN  IF r.idx = None
           THEN /\ status_file' = save_status([st EXCEPT !.key_usage = r.key_usage])
                /\ asr' = [IdleASR EXCEPT !.st = [st EXCEPT !.key_usage = r.key_usage]]
                /\ apc' = "done"
           ELSE /\ asr' = [IdleASR EXCEPT !.st = [st EXCEPT !.key_usage = r.key_usage],
                                        !.current_key_idx = r.idx,
                                        !.idx = 1]
                /\ apc' = "loop"
                /\ UNCHANGED status_file
    /\ actr' = [actr EXCEPT !.runs = @ + 1]
    /\ UNCHANGED <<queue, now, given, denv>>
    /\ UNCHANGED nonAsrVars

\* lines 165-168: an item with a final outcome is skipped
SkipDone ==
    /\ apc = "loop"
    /\ asr.idx <= Len(Vids)
    /\ IsDone(asr.st.processed[Cur.bvid])
    /\ asr' = [asr EXCEPT !.idx = @ + 1, !.last = "none"]
    /\ UNCHANGED <<queue, status_file, apc, now, actr, given, denv>>
    /\ UNCHANGED nonAsrVars

\* lines 170-186: quota check for the item, rotation or halt
CheckQuota ==
    /\ apc = "loop"
    /\ asr.idx <= Len(Vids)
    /\ ~IsDone(asr.st.processed[Cur.bvid])
    /\ denv.on \/ actr.attempts < MaxAttempts
    /\ LET dur == Cur.duration
           ku  == get_key_usage(asr.st.key_usage, kh, now)
       IN  IF key_has_quota(ku[kh], dur)
           THEN /\ asr' = [asr EXCEPT !.st.key_usage = ku, !.last = "none"]
                /\ apc' = "download"
                /\ UNCHANGED status_file
           ELSE LET r == find_available_key(ku, asr.current_key_idx + 1, dur, now)
                IN  /\ status_file' = save_status([asr.st EXCEPT !.key_usage = ku])
                    /\ IF r.idx # None
                       THEN /\ asr' = [asr EXCEPT !.st.key_usage = r.key_usage,
                                              !.current_key_idx = r.idx,
                                              !.last = "none"]
                            /\ apc' = "download"
                       ELSE /\ asr' = [asr EXCEPT !.st.key_usage = r.key_usage,
                                              !.last = "none"]
                            /\ apc' = "final"
    /\ actr' = [actr EXCEPT !.attempts = IF apc' = "download" THEN @ + 1 ELSE @]
    /\ UNCHANGED <<queue, now, given, denv>>
    /\ UNCHANGED nonAsrVars

\* A failed download that leaves the checkpoint for later.
DownloadFailNoSave ==
    /\ apc = "download"
    /\ Answers("dl_fail")
    /\ LET st == [asr.st EXCEPT !.processed[Cur.bvid] = "error_download"]
           n  == asr.consecutive_dl_fails + 1
       IN  IF n >= DL_FAIL_LIMIT
           THEN /\ asr' = [asr EXCEPT !.st = st, !.consecutive_dl_fails = n]
                /\ apc' = "final"
           ELSE /\ asr' = [asr EXCEPT !.st = st, !.consecutive_dl_fails = n,
                                  !.idx = @ + 1]
                /\ apc' = "loop"
    /\ UNCHANGED <<queue, status_file, now, actr, given, denv>>
    /\ UNCHANGED nonAsrVars

\* lines 188-199
DownloadFail ==
    /\ apc = "download"
    /\ Answers("dl_fail")
    /\ LET st == [asr.st EXCEPT !.processed[Cur.bvid] = "error_download"]
           n  == asr.consecutive_dl_fails + 1
       IN  /\ status_file' = save_status(st)
           /\ IF n >= DL_FAIL_LIMIT
              THEN /\ asr' = [asr EXCEPT !.st = st, !.consecutive_dl_fails = n]
                   /\ apc' = "final"
              ELSE /\ asr' = [asr EXCEPT !.st = st, !.consecutive_dl_fails = n,
                                     !.idx = @ + 1]
                   /\ apc' = "loop"
    /\ UNCHANGED <<queue, now, actr, given, denv>>
    /\ UNCHANGED nonAsrVars

\* lines 189, 201
DownloadOk ==
    /\ apc = "download"
    /\ denv.on => denv.kind[Cur.bvid] # "dl_fail"
    /\ asr' = [asr EXCEPT !.consecutive_dl_fails = 0]
    /\ apc' = "transcribe"
    /\ UNCHANGED <<queue, status_file, now, actr, given, denv>>
    /\ UNCHANGED nonAsrVars

\* lines 238-241: the periodic checkpoint at the end of an iteration
Checkpoint(st, run_ok) ==
    IF checkpoint_due(run_ok)
    THEN /\ status_file' = save_status(st)
    ELSE /\ UNCHANGED status_file

\* A charge that forgets the daily counter.
ChargeHourlyOnly(key_usage, k, actual) ==
    [key_usage EXCEPT ![k].hourly_audio = @ + actual]

\* lines 216-217: the actual duration goes to both counters of the key
Charge(key_usage, k, actual) ==
    [key_usage EXCEPT ![k].hourly_audio = @ + actual,
                      ![k].daily_audio = @ + actual]

\* lines 203-211, 216-217, 238-242: the backend returns text
TranscribeText ==
    /\ apc = "transcribe"
    /\ Answers("text")
    /\ \E actual \in Actuals(Cur.duration) :
         LET ku == get_key_usage(asr.st.key_usage, kh, now)
             st == [asr.st EXCEPT !.processed[Cur.bvid] = "ok",
                                  !.key_usage = Charge(ku, kh, actual),
                                  !.charged[Cur.bvid] = @ + 1]
         IN  /\ asr' = [asr EXCEPT !.st = st,
                                   !.run_ok = @ + 1,
                                   !.idx = @ + 1,
                                   !.last = "text"]
             /\ Checkpoint(st, asr.run_ok + 1)
    /\ given' = given \cup {Cur.bvid}
    /\ apc' = "loop"
    /\ UNCHANGED <<queue, now, actr, denv>>
    /\ UNCHANGED nonAsrVars

\* lines 203-205, 212-217, 238-242: the backend returns no text
TranscribeEmpty ==
    /\ apc = "transcribe"
    /\ Answers("empty")
    /\ \E actual \in Actuals(Cur.duration) :
         LET ku == get_key_usage(asr.st.key_usage, kh, now)
             st == [asr.st EXCEPT !.processed[Cur.bvid] = "no_speech",
                                  !.key_usage = Charge(ku, kh, actual),
                                  !.charged[Cur.bvid] = @ + 1]
         IN  /\ asr' = [asr EXCEPT !.st = st,
                                   !.idx = @ + 1,
                                   !.last = "empty"]
             /\ Checkpoint(st, asr.run_ok)
    /\ given' = given \cup {Cur.bvid}
    /\ apc' = "loop"
    /\ UNCHANGED <<queue, now, actr, denv>>
    /\ UNCHANGED nonAsrVars

\* lines 218-231, 235-236: the backend rejects the call with a rate-limit error
TranscribeRateLimit ==
    /\ apc = "transcribe"
    /\ ~denv.on
    /\ LET r == find_available_key(asr.st.key_usage, asr.current_key_idx + 1,
                                   Cur.duration, now)
       IN  IF r.idx # None
           THEN \* line 228: continue, the loop takes the next video
                /\ asr' = [asr EXCEPT !.st.key_usage = r.key_usage,
                                  !.current_key_idx = r.idx,
                                  !.idx = @ + 1,
                                  !.last = "rate_limit"]
                /\ apc' = "loop"
           ELSE /\ asr' = [asr EXCEPT !.st.key_usage = r.key_usage,
                                  !.last = "rate_limit"]
                /\ apc' = "final"
    /\ UNCHANGED <<queue, status_file, now, actr, given, denv>>
    /\ UNCHANGED nonAsrVars

\* A processing error that counts in the streak of failed downloads.
TranscribeErrorStreak ==
    /\ apc = "transcribe"
    /\ Answers("error")
    /\ LET st == [asr.st EXCEPT !.processed[Cur.bvid] = "error_transcribe"]
       IN  /\ asr' = [asr EXCEPT !.st = st,
                                 !.consecutive_dl_fails = @ + 1,
                                 !.idx = @ + 1,
                                 !.last = "error"]
           /\ Checkpoint(st, asr.run_ok)
    /\ apc' = "loop"
    /\ UNCHANGED <<queue, now, actr, given, denv>>
    /\ UNCHANGED nonAsrVars

\* lines 218-220, 232-242: any other error of the call
TranscribeError ==
    /\ apc = "transcribe"
    /\ Answers("error")
    /\ LET st == [asr.st EXCEPT !.processed[Cur.bvid] = "error_transcribe"]
       IN  /\ asr' = [asr EXCEPT !.st = st,
                                 !.idx = @ + 1,
                                 !.last = "error"]
           /\ Checkpoint(st, asr.run_ok)
    /\ apc' = "loop"
    /\ UNCHANGED <<queue, now, actr, given, denv>>
    /\ UNCHANGED nonAsrVars

\* line 165: the queue is exhausted
LoopEnd ==
    /\ apc = "loop"
    /\ asr.idx > Len(Vids)
    /\ apc' = "final"
    /\ UNCHANGED <<queue, status_file, asr, now, actr, given, denv>>
    /\ UNCHANGED nonAsrVars

\* A main() that returns without the save of line 244.
FinalNoSave ==
    /\ apc = "final"
    /\ asr' = [IdleASR EXCEPT
                !.st = [asr.st EXCEPT !.key_usage = log_key_usage(@, 1, now)]]
    /\ apc' = "done"
    /\ UNCHANGED <<queue, status_file, now, actr, given, denv>>
    /\ UNCHANGED nonAsrVars

\* lines 244-252 and the return of main(); of the locals, st is kept to tell
\* what the process held in memory when it ended
FinalSave ==
    /\ apc = "final"
    /\ status_file' = save_status(asr.st)
    /\ asr' = [IdleASR EXCEPT
                !.st = [asr.st EXCEPT !.key_usage = log_key_usage(@, 1, now)]]
    /\ apc' = "done"
    /\ UNCHANGED <<queue, now, actr, given, denv>>
    /\ UNCHANGED nonAsrVars

\* the process is killed: its memory is lost, the files stay
KillASR ==
    /\ apc \in {"loop", "download", "transcribe", "final"}
    /\ actr.kills < MaxKills
    /\ denv.on => denv.phase = "crash"
    /\ asr' = IdleASR
    /\ apc' = "idle"
    /\ actr' = [actr EXCEPT !.kills = @ + 1]
    /\ UNCHANGED <<queue, status_file, now, given, denv>>
    /\ UNCHANGED nonAsrVars

\* time.time() advances; it is read at lines 152, 173, 205 and 222 only, so
\* the clock moves right before one of them or between two runs
Tick ==
    /\ apc \in {"idle", "done", "loop", "transcribe"}
    /\ actr.ticks < MaxTicks
    /\ \E d \in {HOUR, DAY} : now' = now + d
    /\ actr' = [actr EXCEPT !.ticks = @ + 1]
    /\ UNCHANGED <<queue, status_file, apc, asr, given, denv>>
    /\ UNCHANGED nonAsrVars

ASRNext ==
    \/ StartASR
    \/ SkipDone
    \/ CheckQuota
    \/ DownloadFail
    \/ DownloadOk
    \/ TranscribeText
    \/ TranscribeEmpty
    \/ TranscribeRateLimit
    \/ TranscribeError
    \/ LoopEnd
    \/ FinalSave
    \/ KillASR
    \/ Tick

SpecASR == ASRInit /\ [][ASRNext]_vars

(***************************************************************************)
(* Properties of the batch processor                                       *)
(***************************************************************************)
\* the key in use is the one chosen by a rate-limit rotation: in a first,
\* unkilled run the video before the current one was left without a status
AfterRateLimitRotation ==
    /\ actr.runs = 1
    /\ actr.kills = 0
    /\ asr.idx > 1
    /\ asr.idx <= Len(Vids)
    /\ asr.st.processed[Vids[asr.idx - 1].bvid] = "none"

\* C4: every backend call for a video of estimated cost dur is issued with a
\* key whose recorded hourly usage + dur is within the hourly limit and whose
\* recorded daily usage + dur is within the daily limit, as recorded when the
\* key was checked or chosen for this video (start key, quota rotation and
\* rate-limit rotation alike).
C4_CallWithinBudget ==
    apc \in {"download", "transcribe"} =>
        /\ asr.st.key_usage[kh].hourly_audio + Cur.duration <= HOURLY_LIMIT_PER_KEY
        /\ asr.st.key_usage[kh].daily_audio + Cur.duration <= DAILY_LIMIT_PER_KEY

\* a call at exactly the hourly limit, with the key a rate-limit rotation chose
C4_Witness ==
    /\ apc = "transcribe"
    /\ AfterRateLimitRotation
    /\ asr.current_key_idx = 1
    /\ asr.st.key_usage[kh].hourly_audio + Cur.duration > HOURLY_LIMIT_PER_KEY - 600

\* no key of the pool has hourly and daily headroom for the pending video
NoHeadroom ==
    \A i \in 1..Len(API_KEYS) :
        LET k == key_hash(API_KEYS[i])
        IN  ~key_has_quota(get_key_usage(asr.st.key_usage, k, now)[k], Cur.duration)

Pending ==
    /\ apc = "loop"
    /\ asr.idx <= Len(Vids)
    /\ ~IsDone(asr.st.processed[Cur.bvid])

\* two keys with headroom for one video each and a queue of equal videos,
\* in a first run without kill or clock change in which every video so far
\* was downloaded and answered
OneEachScenario ==
    /\ denv.ckpt0 = FreshCheckpoint([k \in KeyHashes |-> Usage(4800, 4800)])
    /\ \A i \in 1..Len(queue) : queue[i] = 1200
    /\ actr.runs = 1
    /\ actr.kills = 0
    /\ actr.ticks = 0
    /\ apc \notin {"idle", "done"}
    /\ \A j \in 1..(asr.idx - 1) : IsDone(asr.st.processed[Vids[j].bvid])

\* C5: when no key has headroom for the pending video the run halts: that
\* video and the later ones get no backend call, its status stays as it was,
\* and the status map and the usage of every key are saved.  With two keys
\* that have room for one video each, video 1 goes to key 1, video 2 to
\* key 2, and the run halts before video 3.
C5_HaltsWithoutHeadroom ==
    /\ [][(Pending /\ NoHeadroom /\ asr' # asr /\ apc' # "idle")
              => /\ apc' = "final"
                 /\ asr'.st.processed = asr.st.processed
                 /\ status_file'.exists
                 /\ status_file'.processed = asr.st.processed]_vars
    /\ [][apc = "final"
              => /\ apc' \in {"final", "done", "idle"}
                 /\ apc' = "done" => status_file' = save_status(asr.st)]_vars
    /\ [](OneEachScenario =>
              /\ apc \in {"download", "transcribe"}
                    => asr.current_key_idx = asr.idx - 1
              /\ asr.idx <= Len(API_KEYS) + 1
              /\ asr.idx = Len(API_KEYS) + 1 => apc \in {"loop", "final"})

\* the run halted before video 3, videos 1 and 2 answered by keys 1 and 2
C5_Witness ==
    /\ OneEachScenario
    /\ apc = "final"
    /\ asr.idx = Len(API_KEYS) + 1
    /\ asr.idx <= Len(Vids)
    /\ asr.st.processed[Cur.bvid] = "none"
    /\ status_file.processed = asr.st.processed
    /\ \A k \in KeyHashes : status_file.key_usage[k].hourly_audio >= 6000

\* C6: a video rejected with a rate-limit error, when some key still has
\* headroom for it, is submitted again with that key in the same run.
C6_SameItemResubmitted ==
    [][(apc = "transcribe" /\ asr'.last = "rate_limit" /\ apc' # "final"
            /\ apc' # "idle")
          => (asr'.idx = asr.idx /\ apc' \in {"download", "transcribe"})]_vars

DetUsageLevels == {Usage(2400, 2400), Usage(4800, 4800)}

DetDurations == {d \in Durations : d <= MAX_DURATION_SEC}

ASRDetInit ==
    /\ queue \in [1..MaxDetItems -> DetDurations]
    /\ status_file \in {FreshCheckpoint(u) : u \in [KeyHashes -> DetUsageLevels]}
    /\ apc = "idle"
    /\ asr = IdleASR
    /\ now = 0
    /\ actr = NoCounts
    /\ given = {}
    /\ \E kind \in [Items -> Kinds] :
         denv = [on |-> TRUE, kind |-> kind, phase |-> "ref",
                 ref |-> NoStatus.processed, ckpt0 |-> status_file]
    /\ CollIdle
    /\ SaveIdle
    /\ BatchIdle
    /\ ScanIdle
    /\ LoadIdle
    /\ PipeIdle
    /\ ReadIdle
    /\ PickIdle
    /\ CredIdle
    /\ LlmIdle

\* the uninterrupted run ended: keep its status map, restore the initial
\* checkpoint and start over
Rewind ==
    /\ denv.on
    /\ denv.phase = "ref"
    /\ apc = "done"
    /\ denv' = [denv EXCEPT !.phase = "crash", !.ref = status_file.processed]
    /\ status_file' = denv.ckpt0
    /\ apc' = "idle"
    /\ actr' = NoCounts
    /\ given' = {}
    /\ asr' = IdleASR
    /\ UNCHANGED <<queue, now>>
    /\ UNCHANGED nonAsrVars

ASRDetNext ==
    \/ StartASR
    \/ SkipDone
    \/ CheckQuota
    \/ DownloadFail
    \/ DownloadOk
    \/ TranscribeText
    \/ TranscribeEmpty
    \/ TranscribeError
    \/ LoopEnd
    \/ FinalSave
    \/ KillASR
    \/ Rewind

SpecASRDet == ASRDetInit /\ [][ASRDetNext]_vars

\* C7: with a deterministic payload source and backend, a batch killed once
\* and restarted until it terminates ends with the per-item status map of the
\* uninterrupted run over the same queue, keys and initial checkpoint.
C7_SameFinalStatus ==
    (denv.on /\ denv.phase = "crash" /\ apc = "done")
        => status_file.processed = denv.ref

-----------------------------------------------------------------------------
(* Collector: properties *)

\* C1: in every reachable state of a collector run the known-set (the videos
\* gathered so far, and each file that persists them) holds no identifier twice.
C1_KnownSetUnique ==
    /\ NoDuplicates(m.all_videos \o ff.videos)
    /\ NoDuplicates(output_file.videos)
    /\ NoDuplicates(progress_file.videos)

\* A first full run read a video in folder 1, met it again on the first page of
\* folder 2, and went on to add another video of folder 2.
C1_Witness ==
    /\ cpc = "write" /\ runs = 1 /\ edits = 0
    /\ Len(remote[2]) > 0
    /\ \E k \in 1..Len(m.all_videos) :
         m.all_videos[k].bvid = remote[2][1] /\ m.all_videos[k].folder = 1
    /\ \E k \in 1..Len(m.all_videos) : m.all_videos[k].folder = 2

\* C2: the cursor marker persisted by a run is never below the one persisted
\* before the run.
C2_CursorNonDecreasing ==
    [][last_scan_file.exists =>
         last_scan_file'.latest_fav_time >= last_scan_file.latest_fav_time]_vars

\* C3 as stated: no run, in either mode, drops an identifier from the persisted
\* known-item file.
C3_NoRunDropsKnown ==
    [][output_file.exists =>
         Bvids(output_file.videos) \subseteq Bvids(output_file'.videos)]_vars

\* C3 as amended: no incremental run, completed or aborted by an auth
\* rejection, drops an identifier from the persisted known-item file.
C3_IncrementalKeepsKnown ==
    [][(output_file.exists /\ m.is_incremental) =>
         Bvids(output_file.videos) \subseteq Bvids(output_file'.videos)]_vars

\* An incremental run added new videos to a known-item file that had some.
C3_Witness ==
    /\ cpc = "idle"
    /\ output_file.exists /\ output_file.incremental
    /\ output_file.new_videos > 0
    /\ Len(output_file.videos) > output_file.new_videos

(***************************************************************************)
(* Checkpoint writers: the steps of one save                                *)
(***************************************************************************)
SaveInit ==
    /\ SaveIdle
    /\ CollIdle
    /\ AsrIdle
    /\ BatchIdle
    /\ ScanIdle
    /\ LoadIdle
    /\ PipeIdle
    /\ ReadIdle
    /\ PickIdle
    /\ CredIdle
    /\ LlmIdle

\* the buffered chunks reach the file
Flushed(file, buffered) == [file EXCEPT !.n = @ + buffered]

\* a stage calls its save with the next version of its document
BeginSave ==
    /\ spc = "idle"
    /\ nsaves < MaxSaves
    /\ \E wr \in Writers :
         sv' = [writer |-> wr, old |-> disk[wr.target],
                new_ver |-> disk[wr.target].ver + 1, dumped |-> 0, buffered |-> 0]
    /\ spc' = "open"
    /\ nsaves' = nsaves + 1
    /\ UNCHANGED disk
    /\ UNCHANGED nonSaveVars

\* open(path, "w") creates the file or truncates it
Open ==
    /\ spc = "open"
    /\ disk' = [disk EXCEPT ![open_path(sv.writer)] = Truncated(sv.new_ver)]
    /\ spc' = "dump"
    /\ UNCHANGED <<sv, nsaves>>
    /\ UNCHANGED nonSaveVars

\* json.dump writes one more chunk to the file object
Dump ==
    /\ spc = "dump"
    /\ sv.dumped < NChunks
    /\ sv' = [sv EXCEPT !.dumped = @ + 1, !.buffered = @ + 1]
    /\ UNCHANGED <<disk, spc, nsaves>>
    /\ UNCHANGED nonSaveVars

\* the file object empties its buffer into the file when the buffer fills
AutoFlush ==
    /\ spc = "dump"
    /\ sv.buffered > 0
    /\ disk' = [disk EXCEPT ![open_path(sv.writer)] = Flushed(@, sv.buffered)]
    /\ sv' = [sv EXCEPT !.buffered = 0]
    /\ UNCHANGED <<spc, nsaves>>
    /\ UNCHANGED nonSaveVars

\* json.dump returned
DumpDone ==
    /\ spc = "dump"
    /\ sv.dumped = NChunks
    /\ spc' = IF sv.writer.syncs THEN "flush" ELSE "close"
    /\ UNCHANGED <<disk, sv, nsaves>>
    /\ UNCHANGED nonSaveVars

\* step1 line 78: f.flush()
Flush ==
    /\ spc = "flush"
    /\ disk' = [disk EXCEPT ![open_path(sv.writer)] = Flushed(@, sv.buffered)]
    /\ sv' = [sv EXCEPT !.buffered = 0]
    /\ spc' = "fsync"
    /\ UNCHANGED nsaves
    /\ UNCHANGED nonSaveVars

\* step1 line 79: os.fsync(f.fileno()); what a reader sees does not change
Fsync ==
    /\ spc = "fsync"
    /\ spc' = "close"
    /\ UNCHANGED <<disk, sv, nsaves>>
    /\ UNCHANGED nonSaveVars

\* the with block ends: the rest of the buffer is written, the file closed
Close ==
    /\ spc = "close"
    /\ disk' = [disk EXCEPT ![open_path(sv.writer)] = Flushed(@, sv.buffered)]
    /\ IF sv.writer.tmp # ""
       THEN /\ sv' = [sv EXCEPT !.buffered = 0]
            /\ spc' = "replace"
       ELSE /\ sv' = NoSave
            /\ spc' = "idle"
    /\ UNCHANGED nsaves
    /\ UNCHANGED nonSaveVars

\* os.replace(tmp, path) / tmp.replace(STATUS_PATH): one atomic rename
Replace ==
    /\ spc = "replace"
    /\ disk' = [disk EXCEPT ![sv.writer.target] = disk[open_path(sv.writer)],
                            ![open_path(sv.writer)] =
                                IF open_path(sv.writer) = sv.writer.target
                                THEN disk[open_path(sv.writer)] ELSE NoFile]
    /\ sv' = NoSave
    /\ spc' = "idle"
    /\ UNCHANGED nsaves
    /\ UNCHANGED nonSaveVars

\* the process is killed: the file object's buffer is lost, the files stay
KillSave ==
    /\ spc # "idle"
    /\ sv' = NoSave
    /\ spc' = "idle"
    /\ UNCHANGED <<disk, nsaves>>
    /\ UNCHANGED nonSaveVars

SaveNext ==
    \/ BeginSave
    \/ Open
    \/ Dump
    \/ AutoFlush
    \/ DumpDone
    \/ Flush
    \/ Fsync
    \/ Close
    \/ Replace
    \/ KillSave

SpecSave == SaveInit /\ [][SaveNext]_vars

(***************************************************************************)
(* Properties of the checkpoint writers                                    *)
(***************************************************************************)
\* a reader of the file gets a whole document, or there is no file yet
Intact(file) == ~file.exists \/ file.n = NChunks

\* during a save by wr the target is the document it held or the new one
OldOrNew(wr) ==
    (spc # "idle" /\ sv.writer = wr) =>
        disk[wr.target] \in {sv.old, Complete(sv.new_ver)}

RenamingWriters ==
    {wr \in Writers : wr.name \in {"step1.atomic_write_json", "step3.save_status"}}

\* C9: with a kill possible between any two steps of atomic_write_json
\* (collector) and of save_status (batch processor), the target file holds at
\* every instant the complete previous document or the complete new one.
C9_TargetOldOrNew ==
    \A wr \in RenamingWriters : Intact(disk[wr.target]) /\ OldOrNew(wr)

\* both writers were killed in the middle of a save: the temporary files are
\* partial, asr_status.json still holds its previous document and videos.json
\* is still absent
C9_Witness ==
    /\ spc = "idle"
    /\ disk["asr_status.json"] = Complete(1)
    /\ disk["asr_status.tmp"].exists
    /\ disk["asr_status.tmp"].n < NChunks
    /\ disk["videos.json.tmp"].exists
    /\ disk["videos.json.tmp"].n < NChunks
    /\ ~disk["videos.json"].exists

\* C10: a kill during the save of any stage's status or progress map never
\* leaves the target file truncated or partially written.
C10_NoTargetPartial ==
    spc = "idle" => \A wr \in Writers : Intact(disk[wr.target])

(***************************************************************************)
(* The loop of the batch processor, counted: main() of step3_asr_groq.py   *)
(* over a queue long enough for the periodic checkpoint.  The quota of the *)
(* keys, the payload source and the backend are inputs of each step.       *)
(***************************************************************************)
\* videos in asr_queue.json
BatchLen == 22
\* videos at the head of the queue already ok or no_speech in the checkpoint
MaxDone == 1

BatchInit ==
    /\ bpc = "idle"
    /\ bt \in {[IdleBatch EXCEPT !.ndone = n] : n \in 0..MaxDone}
    /\ CollIdle
    /\ AsrIdle
    /\ SaveIdle
    /\ ScanIdle
    /\ LoadIdle
    /\ PipeIdle
    /\ ReadIdle
    /\ PickIdle
    /\ CredIdle
    /\ LlmIdle

\* lines 140-163: avail: find_available_key(st, 0, 0) found a key
BStart(avail) ==
    /\ bpc = "idle"
    /\ IF avail
       THEN /\ bt' = [bt EXCEPT !.idx = 1, !.run_ok = 0, !.consecutive_dl_fails = 0]
            /\ bpc' = "loop"
       ELSE \* line 155: save_status(st)
            /\ bt' = [bt EXCEPT !.unsaved = 0]
            /\ bpc' = "done"
    /\ UNCHANGED nonBatchVars

\* lines 165-168
BSkipDone ==
    /\ bpc = "loop"
    /\ bt.idx <= BatchLen
    /\ bt.idx <= bt.ndone
    /\ bt' = [bt EXCEPT !.idx = @ + 1]
    /\ UNCHANGED bpc
    /\ UNCHANGED nonBatchVars

\* lines 170-186: has_quota: key_has_quota(st, kh, dur); found: the rotation
\* found another key
BCheckQuota(has_quota, found) ==
    /\ bpc = "loop"
    /\ bt.idx <= BatchLen
    /\ bt.idx > bt.ndone
    /\ IF has_quota
       THEN /\ bpc' = "download"
            /\ UNCHANGED bt
       ELSE \* line 176: save_status(st)
            /\ bt' = [bt EXCEPT !.unsaved = 0]
            /\ bpc' = IF found THEN "download" ELSE "final"
    /\ UNCHANGED nonBatchVars

\* lines 188-199
BDownloadFail ==
    /\ bpc = "download"
    /\ LET n == bt.consecutive_dl_fails + 1
       IN  IF n >= DL_FAIL_LIMIT
           THEN /\ bt' = [bt EXCEPT !.consecutive_dl_fails = n, !.unsaved = 0,
                                    !.last_set = bt.idx]
                /\ bpc' = "final"
           ELSE /\ bt' = [bt EXCEPT !.consecutive_dl_fails = n, !.unsaved = 0,
                                    !.last_set = bt.idx, !.idx = @ + 1]
                /\ bpc' = "loop"
    /\ UNCHANGED nonBatchVars

\* A successful download that leaves the failure counter as it is.
BDownloadOkNoReset ==
    /\ bpc = "download"
    /\ bpc' = "transcribe"
    /\ UNCHANGED bt
    /\ UNCHANGED nonBatchVars

\* lines 189, 201
BDownloadOk ==
    /\ bpc = "download"
    /\ bt' = [bt EXCEPT !.consecutive_dl_fails = 0]
    /\ bpc' = "transcribe"
    /\ UNCHANGED nonBatchVars

\* lines 203-211, 216-217: the backend returns text; st holds "ok" for the video
BTranscribeText ==
    /\ bpc = "transcribe"
    /\ bt' = [bt EXCEPT !.run_ok = @ + 1, !.unsaved = @ + 1, !.last_set = bt.idx]
    /\ bpc' = "checkpoint"
    /\ UNCHANGED nonBatchVars

\* lines 203-205, 212-217: the backend returns no text
BTranscribeEmpty ==
    /\ bpc = "transcribe"
    /\ bpc' = "checkpoint"
    /\ bt' = [bt EXCEPT !.last_set = bt.idx]
    /\ UNCHANGED nonBatchVars

\* lines 218-231: a rate-limit error; found: the rotation found another key
BTranscribeRateLimit(found) ==
    /\ bpc = "transcribe"
    /\ IF found
       THEN \* line 228: continue
            /\ bt' = [bt EXCEPT !.idx = @ + 1]
            /\ bpc' = "loop"
       ELSE /\ bpc' = "final"
            /\ UNCHANGED bt
    /\ UNCHANGED nonBatchVars

\* lines 218-220, 232-236: any other error of the call
BTranscribeError ==
    /\ bpc = "transcribe"
    /\ bpc' = "checkpoint"
    /\ bt' = [bt EXCEPT !.last_set = bt.idx]
    /\ UNCHANGED nonBatchVars

\* lines 238-242: the periodic checkpoint at the end of the iteration
BCheckpoint ==
    /\ bpc = "checkpoint"
    /\ bt' = [bt EXCEPT !.unsaved = IF checkpoint_due(bt.run_ok) THEN 0 ELSE @,
                        !.idx = @ + 1]
    /\ bpc' = "loop"
    /\ UNCHANGED nonBatchVars

\* line 165: the queue is exhausted
BLoopEnd ==
    /\ bpc = "loop"
    /\ bt.idx > BatchLen
    /\ bpc' = "final"
    /\ UNCHANGED bt
    /\ UNCHANGED nonBatchVars

\* line 244
BFinalSave ==
    /\ bpc = "final"
    /\ bt' = [bt EXCEPT !.unsaved = 0]
    /\ bpc' = "done"
    /\ UNCHANGED nonBatchVars

\* the process is killed: what st held and the file does not is lost
BKill ==
    /\ bpc \in {"loop", "download", "transcribe", "checkpoint", "final"}
    /\ bt' = [bt EXCEPT !.lost = bt.unsaved]
    /\ bpc' = "killed"
    /\ UNCHANGED nonBatchVars

BatchNext ==
    \/ \E avail \in BOOLEAN : BStart(avail)
    \/ BSkipDone
    \/ \E has_quota \in BOOLEAN, found \in BOOLEAN : BCheckQuota(has_quota, found)
    \/ BDownloadFail
    \/ BDownloadOk
    \/ BTranscribeText
    \/ BTranscribeEmpty
    \/ \E found \in BOOLEAN : BTranscribeRateLimit(found)
    \/ BTranscribeError
    \/ BCheckpoint
    \/ BLoopEnd
    \/ BFinalSave
    \/ BKill

SpecBatch == BatchInit /\ [][BatchNext]_vars

\* C11 as stated: at every point of a batch run at most N - 1 = 19 videos
\* have their success recorded in memory and not in the checkpoint on disk,
\* and a kill at any point loses at most 19 successes.
C11_AtMostNMinus1 ==
    /\ bt.unsaved <= CHECKPOINT_EVERY - 1
    /\ bt.lost <= CHECKPOINT_EVERY - 1

\* C11, amended: at every point of a batch run at most N = 20 videos have
\* their success recorded in memory and not in the checkpoint on disk, and a
\* kill loses at most 20 successes; the count is at most N - 1 = 19 at every
\* point other than between the recording of a success (line 208) and the
\* checkpoint of the same iteration (line 239).
C11_AtMostN ==
    /\ bt.unsaved <= CHECKPOINT_EVERY
    /\ bt.lost <= CHECKPOINT_EVERY
    /\ bpc \notin {"checkpoint", "killed"} => bt.unsaved <= CHECKPOINT_EVERY - 1

\* the process is killed after the 20th success and before its checkpoint
C11_Witness ==
    /\ bpc = "killed"
    /\ bt.run_ok = CHECKPOINT_EVERY
    /\ bt.lost = CHECKPOINT_EVERY

(***************************************************************************)
(* Checkpoints of the batch processor at rotation, halt and exit           *)
(***************************************************************************)
\* the file holds every status of st and every charge made to a key
RotationPersisted ==
    /\ status_file.processed = asr.st.processed
    /\ status_file.charged = asr.st.charged

\* C12: when the active key was switched, by the quota check before a video
\* or by a rate-limit rejection, the status map and the usage map are on disk
\* before the next backend call is made; when the run halts they are written
\* before the process ends.
C12_SavedBeforeNextCall ==
    /\ [](apc = "transcribe" /\ AfterRateLimitRotation => RotationPersisted)
    /\ [][apc = "loop" /\ apc' = "download"
            /\ asr'.current_key_idx # asr.current_key_idx => RotationPersisted']_vars
    /\ [][apc = "final" /\ apc' = "done" => status_file' = save_status(asr.st)]_vars


\* what the process holds when it ends is on disk: every status and every
\* charge; the usage map in memory is the one on disk as the closing log's
\* get_key_usage leaves it
ExitPersisted ==
    /\ status_file.exists
    /\ status_file.processed = asr.st.processed
    /\ status_file.charged = asr.st.charged
    /\ asr.st.key_usage = log_key_usage(status_file.key_usage, 1, now)

\* C13 as stated: on every path by which main() ends normally the checkpoint
\* on disk equals the status map and the usage map the process holds at exit.
C13_DiskEqualsMemoryAtExit ==
    [][apc # "done" /\ apc' = "done" => status_file' = save_status(asr'.st)]_vars

\* C13, amended: on every path by which main() ends normally (queue drained,
\* all keys exhausted at the start, quota exhaustion, rate limit with no key
\* left, download-failure streak) every status and every charge the process
\* holds at exit is in the checkpoint on disk; the usage map in memory differs
\* from the one on disk at most by what the closing log's get_key_usage did
\* after the last save (entries created with zero usage, elapsed periods
\* reset).
C13_OutcomesOnDiskAtExit ==
    [][apc # "done" /\ apc' = "done" => ExitPersisted']_vars

\* a run that transcribed a video ended, and the usage map in memory has an
\* entry the file lacks
C13_Witness ==
    /\ apc = "done"
    /\ actr.ticks = 0
    /\ \E b \in Items : asr.st.processed[b] = "ok"
    /\ status_file.processed = asr.st.processed
    /\ \E k \in KeyHashes : asr.st.key_usage[k].present /\ ~status_file.key_usage[k].present

(***************************************************************************)
(* Collector: what a run returns                                           *)
(***************************************************************************)
\* the identifiers on any page of any folder of the remote
RemoteBvids == UNION {SeqRange(remote[f]) : f \in FolderIds}

\* the first folder, in the order of the folder list, that lists v
FirstFolder(v) ==
    CHOOSE f \in FolderIds :
        /\ v \in SeqRange(remote[f])
        /\ \A g \in FolderIds : g < f => v \notin SeqRange(remote[g])

\* where the first occurrence of v is: folder, then position in its listing
FirstPos(v) ==
    LET f == FirstFolder(v)
    IN  [folder |-> f, pos |-> CHOOSE k \in 1..Len(remote[f]) : remote[f][k] = v]

Before(p, q) == p.folder < q.folder \/ (p.folder = q.folder /\ p.pos < q.pos)

\* every identifier of the remote exactly once, each with the entry of its
\* first occurrence, in the order of the first occurrences
ExactFirstSeen(videos) ==
    /\ Bvids(videos) = RemoteBvids
    /\ NoDuplicates(videos)
    /\ \A k \in 1..Len(videos) :
         videos[k] = parse_video_item(RemoteItem(videos[k].bvid),
                                      FirstFolder(videos[k].bvid))
    /\ \A a, b \in 1..Len(videos) :
         a < b => Before(FirstPos(videos[a].bvid), FirstPos(videos[b].bvid))

\* C14: a full-mode run that starts without saved progress and meets no page
\* error writes exactly the identifiers that appear on any page of any
\* folder, each once, and the entry kept for an identifier listed several
\* times is the first one in folder order, then page and position order.
C14_FullRunExactFirstSeen ==
    [][(cpc = "write" /\ cpc' = "idle" /\ m.clean)
          => ExactFirstSeen(output_file'.videos)]_vars

\* a clean full run over two folders of two pages each that share a video
C14_Witness ==
    /\ cpc = "write"
    /\ m.clean
    /\ \A f \in FolderIds : Len(remote[f]) = MaxListing
    /\ SeqRange(remote[1]) \cap SeqRange(remote[2]) # {}
    /\ SeqRange(remote[1]) # SeqRange(remote[2])


ScanPageLen == 4

ScanVideos == Videos \cup {"BV4"}

\* the pages: up to ScanPageLen items, no identifier twice
ScanPages ==
    UNION {{p \in [1..n -> ScanVideos] : \A a, b \in 1..n : a # b => p[a] # p[b]}
           : n \in 0..ScanPageLen}

ScanInit ==
    /\ \E p \in ScanPages, known \in SUBSET ScanVideos, has_more \in BOOLEAN,
          incremental \in BOOLEAN, cutoff \in 0..3,
          c0 \in 0..(INCREMENTAL_STOP_THRESHOLD - 1) :
         /\ ~incremental => c0 = 0
         /\ sc = [pc |-> "fetch",
                  medias |-> [k \in 1..Len(p) |-> RemoteItem(p[k])],
                  has_more |-> has_more,
                  incremental |-> incremental,
                  cutoff_fav_time |-> cutoff,
                  known |-> known,
                  c0 |-> c0,
                  seen_bvids |-> known,
                  ff |-> [NoLocals EXCEPT !.consecutive_known = c0],
                  requests |-> 1]
    /\ CollIdle
    /\ AsrIdle
    /\ SaveIdle
    /\ BatchIdle
    /\ LoadIdle
    /\ PipeIdle
    /\ ReadIdle
    /\ PickIdle
    /\ CredIdle
    /\ LlmIdle

\* lines 171-172, 200-240: the answer has code 0
ScanRead ==
    /\ sc.pc = "fetch"
    /\ LET r == PageStep(sc.medias, sc.has_more, sc.ff, sc.seen_bvids,
                         sc.incremental, sc.cutoff_fav_time, 1)
       IN  sc' = [sc EXCEPT !.ff = r.ff, !.seen_bvids = r.seen_bvids,
                            !.pc = IF r.again THEN "sleep" ELSE "returned"]
    /\ UNCHANGED nonScanVars

\* lines 242, 169-171: the loop requests the next page
ScanRequestNext ==
    /\ sc.pc = "sleep"
    /\ sc' = [sc EXCEPT !.pc = "requested", !.requests = @ + 1]
    /\ UNCHANGED nonScanVars

ScanNext == ScanRead \/ ScanRequestNext

SpecScan == ScanInit /\ [][ScanNext]_vars

\* an item that is already known and at or below the cursor
KnownOld(item) == item.bvid \in sc.known /\ item.fav_time <= sc.cutoff_fav_time

\* the streak of known items at or below the cursor reaches the threshold at
\* item j of the page (counting the streak c0 the page started with)
StreakReachedAt(j) ==
    \E n \in 1..INCREMENTAL_STOP_THRESHOLD :
        /\ n <= j
        /\ \A i \in (j - n + 1)..j : KnownOld(sc.medias[i])
        /\ n = INCREMENTAL_STOP_THRESHOLD
           \/ (n = j /\ sc.c0 + n >= INCREMENTAL_STOP_THRESHOLD)

StreakReachedMidPage ==
    sc.incremental /\ \E j \in 1..(Len(sc.medias) - 1) : StreakReachedAt(j)

\* C16: in incremental mode, when the streak of consecutive items that are
\* known and at or below the cursor reaches the threshold (3) in the middle
\* of a page, every remaining item of the page is still examined and every
\* item with a new identifier on the page is added, and no further page of
\* the folder is requested afterwards.
C16_PageFinishedThenStop ==
    (sc.pc \notin {"idle", "fetch"} /\ StreakReachedMidPage)
        => /\ \A i \in 1..Len(sc.medias) :
                sc.medias[i].bvid \notin sc.known
                    => sc.medias[i].bvid \in Bvids(sc.ff.videos)
           /\ sc.pc = "returned"
           /\ sc.requests = 1

\* the streak reached the threshold at item 3 of a page of 4, the last item
\* is new, and the remote has more pages
C16_Witness ==
    /\ sc.pc = "returned"
    /\ sc.has_more
    /\ sc.c0 = 0
    /\ Len(sc.medias) = 4
    /\ StreakReachedAt(3)
    /\ sc.medias[4].bvid \notin sc.known
    /\ sc.medias[4].bvid \in Bvids(sc.ff.videos)


\* C17: an incremental run against a remote with nothing new, as it is after
\* a full run that completed and with the remote content unchanged since,
\* adds zero items, leaves the known-set unchanged and persists the cursor
\* marker it found; an empty run does not reset the cursor to zero.
C17_EmptyIncrementalKeepsCursor ==
    [][(cpc = "write" /\ cpc' = "idle" /\ m.is_incremental
            /\ output_file.exists /\ RemoteBvids \subseteq Bvids(output_file.videos))
          => /\ output_file'.new_videos = 0
             /\ output_file'.videos = output_file.videos
             /\ last_scan_file'.latest_fav_time = last_scan_file.latest_fav_time
             /\ output_file.videos # <<>> => last_scan_file'.latest_fav_time > 0]_vars

\* a full run over two full folders completed with every item of the remote,
\* nobody edited the remote, and the incremental run after it has read the
\* folders and is about to write
C17_Witness ==
    /\ cpc = "write"
    /\ runs = 2
    /\ edits = 0
    /\ output_file.exists /\ ~output_file.incremental /\ ~output_file.cookie_expired
    /\ \A f \in FolderIds : Len(remote[f]) = MaxListing
    /\ ExactFirstSeen(output_file.videos)
    /\ m.is_incremental /\ ~m.cookie_expired
    /\ Len(m.folders) = 2 /\ m.i = Len(m.folders)
    /\ m.new_count = 0
    /\ m.max_fav_time = last_scan_file.latest_fav_time


\* C18: when a full run stops on an auth rejection at page p of folder b, the
\* progress it persists records folder b and page p together with the
\* known-set, so that the next full run resumes requesting at page p of
\* folder b.
C18_ProgressRecordsFailedPage ==
    [][(cpc = "returned" /\ cpc' = "write" /\ ~m.is_incremental /\ ff.expired)
          => /\ progress_file'.exists
             /\ progress_file'.folder_idx = m.i
             /\ progress_file'.next_page = ff.page
             /\ progress_file'.seen_bvids = m.seen_bvids]_vars


\* C19: when the remote answers a page request with the auth-rejection code,
\* the run requests no further page of any folder, writes to the known-item
\* file every item gathered so far, those already read from the current
\* folder included, and exits with status 1, which no other run ends with.
C19_AuthRejectionAborts ==
    /\ []((ff.expired \/ m.cookie_expired) => cpc \in {"returned", "write"})
    /\ [][(cpc = "fetch" /\ ff'.expired)
             => cpc' = "returned" /\ ff'.videos = ff.videos]_vars
    /\ [][(cpc = "returned" /\ ff.expired)
             => /\ cpc' = "write"
                /\ m'.cookie_expired
                /\ m'.all_videos = m.all_videos \o ff.videos]_vars
    /\ [][(cpc = "write" /\ m.cookie_expired)
             => /\ cpc' = "idle"
                /\ output_file'.videos = m.all_videos
                /\ Bvids(output_file'.videos) = m.seen_bvids
                /\ output_file'.cookie_expired
                /\ m'.exit_code = 1]_vars
    /\ [][(cpc = "write" /\ ~m.cookie_expired) => m'.exit_code = 0]_vars

\* page 2 of the first folder was rejected: the run ended with status 1 and
\* the item of page 1 is in the known-item file
C19_Witness ==
    /\ cpc = "idle"
    /\ runs = 1
    /\ m.exit_code = 1
    /\ output_file.cookie_expired
    /\ Len(remote[1]) = 2
    /\ output_file.videos = <<parse_video_item(RemoteItem(remote[1][1]), 1)>>


\* the request just answered was for a page that has items, and fetch_folder
\* returns without having read it and without an auth rejection
LeavesPageUnread ==
    /\ cpc = "fetch"
    /\ cpc' = "returned"
    /\ ~m.is_incremental
    /\ ~ff'.expired
    /\ ff'.page = ff.page
    /\ ff'.videos = ff.videos
    /\ PageMedias(remote[CurFolder.id], ff.page) # <<>>

\* C20: a page request that fails transiently (error code, timeout, network
\* error) is repeated for the same page number; the page number advances
\* only after a page was read; a folder is abandoned only when 5 consecutive
\* requests have failed, and the run then goes on with the next folder.
C20_RetrySamePageUntilBound ==
    /\ [][LeavesPageUnread => ff.errors + 1 >= ERROR_LIMIT]_vars
    /\ [][(cpc = "fetch" /\ cpc' = "fetch" /\ ff'.page # ff.page)
             => ff'.page = ff.page + 1 /\ ff'.errors = 0]_vars
    /\ [][(cpc = "returned" /\ ~ff.expired)
             => cpc' = "for" /\ m'.i = m.i + 1]_vars


\* C21: reading one folder terminates whatever the remote answers: a request
\* for a page, once made, leads to the return of fetch_folder, because every
\* retry of a page request, after an error code or after a timeout, is
\* bounded.
C21_FolderReadTerminates == (cpc = "fetch") ~> (cpc = "returned")


(***************************************************************************)
(* Batch processor: final outcomes, the failure streak, rotation, charges  *)
(***************************************************************************)
\* success (ok) or soft failure (no_speech)
FinalOutcome(status) == status \in {"ok", "no_speech"}

\* C22: a video whose status in the checkpoint file is ok or no_speech is
\* never downloaded or submitted to the backend again, in the run that saved
\* it or in any later run, so its cost is never charged again, and its
\* status in the file never changes afterwards.
C22_FinalOutcomeIsFinal ==
    /\ [][\A b \in Items :
            FinalOutcome(status_file.processed[b])
                => /\ status_file'.processed[b] = status_file.processed[b]
                   /\ status_file'.charged[b] = status_file.charged[b]]_vars
    /\ [][apc' \in {"download", "transcribe"}
            => ~FinalOutcome(status_file'.processed[Vids[asr'.idx].bvid])]_vars

\* a run that was not killed saved no_speech for video 1, and the next run
\* has just skipped it
C22_Witness ==
    /\ actr.kills = 0
    /\ actr.runs = 2
    /\ apc = "loop"
    /\ asr.idx = 2
    /\ asr.last = "none"
    /\ status_file.processed[Vids[1].bvid] = "no_speech"
    /\ status_file.charged[Vids[1].bvid] = 1


\* C23: the consecutive-failure counter is incremented only by a failed
\* download and reset by every successful download; when it reaches 10 the
\* run halts, and no video after the one of the 10th failure is assigned a
\* status: the run ends with the position and the last assignment where the
\* 10th failure left them.
C23_DownloadStreakHalts ==
    /\ [](bt.consecutive_dl_fails <= DL_FAIL_LIMIT)
    /\ [](bt.consecutive_dl_fails = DL_FAIL_LIMIT
            => bpc \in {"final", "done", "killed"} /\ bt.last_set = bt.idx)
    /\ [][bt'.consecutive_dl_fails > bt.consecutive_dl_fails
            => /\ bpc = "download" /\ bpc' \in {"loop", "final"}
               /\ bt'.consecutive_dl_fails = bt.consecutive_dl_fails + 1]_vars
    /\ [][(bpc = "download" /\ bpc' = "transcribe")
            => bt'.consecutive_dl_fails = 0]_vars
    /\ [][(bpc \in {"loop", "transcribe", "checkpoint", "final"})
            => bt'.consecutive_dl_fails = bt.consecutive_dl_fails]_vars
    /\ [][bt.consecutive_dl_fails = DL_FAIL_LIMIT
            => bt'.idx = bt.idx /\ bt'.last_set = bt.last_set]_vars

\* after a success, 10 downloads in a row failed and the run ended with
\* videos left in the queue
C23_Witness ==
    /\ bpc = "done"
    /\ bt.run_ok = 1
    /\ bt.consecutive_dl_fails = DL_FAIL_LIMIT
    /\ bt.idx < BatchLen
    /\ bt.last_set = bt.idx


(***************************************************************************)
(* Loading a checkpoint file: load_status of step3_asr_groq.py,            *)
(* load_progress and load_last_scan of step1_fetch_metadata.py.  A file is *)
(* missing, or holds text that is a JSON document or is not.               *)
(***************************************************************************)
\* videos a status document speaks of
LdItems == {1, 2}

MissingFile == [kind |-> "missing"]

\* text json.load cannot parse: garbage, an empty or a cut-off file
NotJson == [kind |-> "text", json |-> FALSE]

JsonFile(doc) == [kind |-> "text", json |-> TRUE, doc |-> doc]

\* asr_status.json; key_usage may be absent from a file of an older layout
StatusDocs ==
    [processed : [LdItems -> {"none", "ok", "no_speech"}],
     key_usage : {"absent", "empty", "used"}]

\* .fetch_progress.json
ProgressDocs == [nvideos : 0..2, next_page : 1..2, folder_idx : 0..2]

\* .last_scan.json
LastScanDocs == [latest_fav_time : 0..3, total_known : 0..2]

\* values of a loader that are not documents
NoneValue == [none |-> TRUE]

JSONDecodeError == [error |-> "JSONDecodeError"]

Unset == [unset |-> TRUE]

\* json.load(f): the document, or JSONDecodeError
json_load(file) ==
    IF file.json THEN [raised |-> FALSE, value |-> file.doc]
    ELSE [raised |-> TRUE, value |-> JSONDecodeError]

\* lines 61-65 of step3_asr_groq.py
DefaultStatus == [processed |-> [b \in LdItems |-> "none"], key_usage |-> "empty"]

\* line 69 of step1_fetch_metadata.py
DefaultProgress == [nvideos |-> 0, next_page |-> 1, folder_idx |-> 0]

\* A load_status that answers text it cannot parse with the default state.
load_status_lenient(file) ==
    IF file.kind = "missing" \/ ~file.json
    THEN [raised |-> FALSE, value |-> DefaultStatus]
    ELSE [raised |-> FALSE,
          value |-> IF file.doc.key_usage = "absent"
                    THEN [file.doc EXCEPT !.key_usage = "empty"] ELSE file.doc]

\* load_status, lines 54-65 of step3_asr_groq.py
load_status_text(file) ==
    IF file.kind = "missing" THEN [raised |-> FALSE, value |-> DefaultStatus]
    ELSE LET r == json_load(file)
         IN  IF r.raised THEN r
             ELSE [raised |-> FALSE,
                   value |-> IF r.value.key_usage = "absent"
                             THEN [r.value EXCEPT !.key_usage = "empty"]
                             ELSE r.value]

\* load_progress, lines 63-69 of step1_fetch_metadata.py
load_progress_text(file) ==
    IF file.kind = "missing" THEN [raised |-> FALSE, value |-> DefaultProgress]
    ELSE json_load(file)

\* load_last_scan, lines 87-92 of step1_fetch_metadata.py
load_last_scan_text(file) ==
    IF file.kind = "missing" THEN [raised |-> FALSE, value |-> NoneValue]
    ELSE json_load(file)

\* what a loader returns for a missing file
DefaultOf(loader) ==
    CASE loader = "load_status" -> DefaultStatus
      [] loader = "load_progress" -> DefaultProgress
      [] OTHER -> NoneValue

LoadStart(loader, file) ==
    [pc |-> "start", loader |-> loader, file0 |-> file, file |-> file,
     value |-> Unset]

LoadInit ==
    /\ ld \in {LoadStart("load_status", f)
                 : f \in {MissingFile, NotJson} \cup {JsonFile(d) : d \in StatusDocs}}
           \cup {LoadStart("load_progress", f)
                 : f \in {MissingFile, NotJson} \cup {JsonFile(d) : d \in ProgressDocs}}
           \cup {LoadStart("load_last_scan", f)
                 : f \in {MissingFile, NotJson} \cup {JsonFile(d) : d \in LastScanDocs}}
    /\ CollIdle
    /\ AsrIdle
    /\ SaveIdle
    /\ BatchIdle
    /\ ScanIdle
    /\ LlmIdle
    /\ CredIdle
    /\ PickIdle
    /\ PipeIdle
    /\ ReadIdle

\* the loader returned r, or raised
Loaded(r) ==
    ld' = [ld EXCEPT !.pc = IF r.raised THEN "raised" ELSE "loaded",
                     !.value = r.value]

\* line 145 of step3_asr_groq.py: st = load_status()
LoadStatus ==
    /\ ld.pc = "start" /\ ld.loader = "load_status"
    /\ Loaded(load_status_text(ld.file))
    /\ UNCHANGED nonLoadVars

\* lines 296, 304 of step1_fetch_metadata.py: progress = load_progress()
LoadProgress ==
    /\ ld.pc = "start" /\ ld.loader = "load_progress"
    /\ Loaded(load_progress_text(ld.file))
    /\ UNCHANGED nonLoadVars

\* line 261 of step1_fetch_metadata.py: last_scan = load_last_scan()
LoadLastScan ==
    /\ ld.pc = "start" /\ ld.loader = "load_last_scan"
    /\ Loaded(load_last_scan_text(ld.file))
    /\ UNCHANGED nonLoadVars

\* no caller catches the exception: main() ends with the traceback, before
\* any of its writes
Uncaught ==
    /\ ld.pc = "raised"
    /\ ld' = [ld EXCEPT !.pc = "exited"]
    /\ UNCHANGED nonLoadVars

\* the run goes on with the value loaded and saves its checkpoint:
\* save_status(st), save_progress(...), save_last_scan(...)
RunSaves ==
    /\ ld.pc = "loaded"
    /\ ld' = [ld EXCEPT
                !.pc = "saved",
                !.file = JsonFile(IF ld.value = NoneValue
                                  THEN [latest_fav_time |-> 0, total_known |-> 0]
                                  ELSE ld.value)]
    /\ UNCHANGED nonLoadVars

LoadNext == LoadStatus \/ LoadProgress \/ LoadLastScan \/ Uncaught \/ RunSaves

SpecLoad == LoadInit /\ [][LoadNext]_vars

\* C24: loading a checkpoint (batch status, collector progress, cursor) from
\* a missing file returns the explicit default state; loading from a file
\* that is not a JSON document raises an error: the run does not go on with
\* a default state and the file is left as it was.
C24_MissingDefaultMalformedRaises ==
    /\ (ld.pc \in {"loaded", "saved"} /\ ld.file0 = MissingFile)
          => ld.value = DefaultOf(ld.loader)
    /\ (ld.pc # "idle" /\ ld.file0 = NotJson)
          => /\ ld.pc \in {"start", "raised", "exited"}
             /\ ld.file = ld.file0
             /\ ld.value \in {Unset, JSONDecodeError}
    /\ ld.pc = "raised" => ld.file0 = NotJson

\* the batch processor found an asr_status.json that is not JSON and ended
C24_Witness ==
    /\ ld.pc = "exited"
    /\ ld.loader = "load_status"
    /\ ld.file = NotJson


\* C25: the cursor is written only by a run that completed its drain of
\* every folder: a run aborted by an authentication rejection neither creates
\* the persisted cursor nor advances it.
C25_AbortedRunKeepsCursor ==
    [][(cpc = "write" /\ m.cookie_expired)
          => /\ last_scan_file'.exists = last_scan_file.exists
             /\ last_scan_file'.latest_fav_time <= last_scan_file.latest_fav_time]_vars


(***************************************************************************)
(* The LLM-backed stages: main() of step4_5_filter.py,                     *)
(* step4_classify_asr.py and step4_7_polish.py.  Each keeps a progress map *)
(* (item -> what came of it) and writes its output from it.                *)
(***************************************************************************)
LlmStages == {"filter", "classify_asr", "polish"}

\* the items the stage is given
LlmItems == 1..2

MaxLlmRuns == 2

\* api_call(messages, retries=3)
Retries == 3

\* the periodic save of the progress map: every 20, 10 or 5 items
SaveEvery(stage) ==
    CASE stage = "filter" -> 20
      [] stage = "classify_asr" -> 10
      [] OTHER -> 5

\* what the stage records for an item when api_call returned None:
\* the filter {"suitable": True, ...}, the classification {"error": "failed"},
\* the polish "error"
OnExhausted(stage) == IF stage = "filter" THEN "default" ELSE "error"

RECURSIVE SeqOfSet(_)
\* sorted(...) of a set of items
SeqOfSet(S) ==
    IF S = {} THEN <<>>
    ELSE LET x == CHOOSE y \in S : \A z \in S : y <= z
         IN  <<x>> \o SeqOfSet(S \ {x})

\* the items left for this run
Remaining(stage, progress, output) ==
    SeqOfSet({b \in LlmItems :
                /\ progress[b] = "none"
                /\ stage \in {"classify_asr", "polish"} => b \notin output})

\* write_output, merge_output: the items of the stage's output; the polish
\* stage writes one file for each item as it goes
OutputOf(stage, progress, output) ==
    CASE stage = "filter" -> {b \in LlmItems : progress[b] # "none"}
      [] stage = "classify_asr" ->
            output \cup {b \in LlmItems : progress[b] \notin {"none", "error"}}
      [] OTHER -> output

LlmInit ==
    /\ llm \in {[pc |-> "start", stage |-> s, run |-> 0,
                 progress |-> [b \in LlmItems |-> "none"],
                 progress_file |-> [b \in LlmItems |-> "none"],
                 output |-> {}, remaining |-> <<>>, i |-> 0, calls |-> 0]
                : s \in LlmStages}
    /\ CollIdle
    /\ AsrIdle
    /\ SaveIdle
    /\ BatchIdle
    /\ ScanIdle
    /\ LoadIdle
    /\ PipeIdle
    /\ ReadIdle
    /\ PickIdle
    /\ CredIdle

\* main() up to the loop: the progress map is loaded, the items left are
\* listed; with none left the output is written again and the run is over
LlmStartRun ==
    /\ llm.pc \in {"start", "done"}
    /\ llm.run < MaxLlmRuns
    /\ LET progress == llm.progress_file
           remaining == Remaining(llm.stage, progress, llm.output)
       IN  llm' = [llm EXCEPT
                     !.run = @ + 1,
                     !.progress = progress,
                     !.remaining = remaining,
                     !.i = 1,
                     !.calls = 0,
                     !.pc = IF remaining = <<>> THEN "done" ELSE "item",
                     !.output = IF remaining = <<>>
                                THEN OutputOf(llm.stage, progress, @) ELSE @]
    /\ UNCHANGED nonLlmVars

\* the end of one pass of the loop over `remaining`, the progress map being
\* `progress` and the files written `output`: the periodic save, then the next item or the end of the loop
LlmNextItem(progress, output, recorded) ==
    llm' = [llm EXCEPT
              !.progress = progress,
              !.output = output,
              !.progress_file = IF recorded /\ llm.i % SaveEvery(llm.stage) = 0
                                THEN progress ELSE @,
              !.calls = 0,
              !.i = @ + 1,
              !.pc = IF llm.i + 1 > Len(llm.remaining) THEN "finish" ELSE "item"]

\* the item has no transcript (filter, polish) or no metadata (classification):
\* `continue` without a call
LlmNoInput ==
    /\ llm.pc = "item" /\ llm.calls = 0
    /\ LET b == llm.remaining[llm.i]
       IN  LlmNextItem(IF llm.stage = "classify_asr" THEN llm.progress
                       ELSE [llm.progress EXCEPT ![b] = "no_transcript"],
                       llm.output, FALSE)
    /\ UNCHANGED nonLlmVars

\* an attempt of api_call fails and another one follows after the sleep
LlmAttemptFails ==
    /\ llm.pc = "item"
    /\ llm.calls + 1 < Retries
    /\ llm' = [llm EXCEPT !.calls = @ + 1]
    /\ UNCHANGED nonLlmVars

\* an attempt of api_call returns the model's answer
LlmCallOk ==
    /\ llm.pc = "item"
    /\ llm.calls < Retries
    /\ LET b == llm.remaining[llm.i]
       IN  LlmNextItem([llm.progress EXCEPT ![b] = "result"],
                       IF llm.stage = "polish" THEN llm.output \cup {b}
                       ELSE llm.output, TRUE)
    /\ UNCHANGED nonLlmVars

\* the last attempt of api_call fails: it returns None
LlmCallExhausted ==
    /\ llm.pc = "item"
    /\ llm.calls + 1 = Retries
    /\ LET b == llm.remaining[llm.i]
       IN  LlmNextItem([llm.progress EXCEPT ![b] = OnExhausted(llm.stage)],
                       llm.output, TRUE)
    /\ UNCHANGED nonLlmVars

\* after the loop: the progress map is saved and the output is written
LlmFinish ==
    /\ llm.pc = "finish"
    /\ llm' = [llm EXCEPT
                 !.pc = "done",
                 !.progress_file = llm.progress,
                 !.output = OutputOf(llm.stage, llm.progress, @)]
    /\ UNCHANGED nonLlmVars

LlmNext ==
    \/ LlmStartRun
    \/ LlmNoInput
    \/ LlmAttemptFails
    \/ LlmCallOk
    \/ LlmCallExhausted
    \/ LlmFinish

SpecLLM == LlmInit /\ [][LlmNext]_vars

\* C26: in every LLM-backed stage a call is attempted at most 3 times, and an
\* item whose attempts all failed is given a default outcome that resolves
\* it: when the run is over the item is in the stage's output.
C26_ExhaustedItemResolved ==
    /\ llm.pc # "idle" => llm.calls < Retries
    /\ llm.pc = "done"
          => \A b \in LlmItems :
                llm.progress_file[b] \in {"default", "error"} => b \in llm.output


(***************************************************************************)
(* refresh_cookie() of pipeline.py in two pipeline instances started side  *)
(* by side: the refresh request, then the rewrite of credentials.json      *)
(* under the lock file.                                                    *)
(***************************************************************************)
Insts == 1..2

\* the fields of credentials.json that refresh_cookie rewrites
CredFields == {"sessdata", "bili_jct", "refresh_token"}

\* a field holds 0 (the value the file had at first) or the number of the
\* instance whose refresh produced the value
InitialCreds == [f \in CredFields |-> 0]

\* A flock that is granted whoever holds the lock.
flock_blind(lock, p) == [ok |-> TRUE, lock |-> p]

\* fcntl.flock(lock_fd, LOCK_EX | LOCK_NB): granted when no other open file
\* holds the lock, an error otherwise
flock_nb(lock, p) ==
    IF lock = 0 THEN [ok |-> TRUE, lock |-> p]
    ELSE [ok |-> FALSE, lock |-> lock]

\* lines 243-248: the fields for which the refresh gave a value are replaced
UpdateCreds(all_creds, new, p) ==
    [f \in CredFields |-> IF f \in new THEN p ELSE all_creds[f]]

CredInit ==
    /\ ck = [pc |-> "run",
             at |-> [p \in Insts |-> "start"],
             lock |-> 0,
             file |-> InitialCreds,
             all_creds |-> [p \in Insts |-> InitialCreds],
             new |-> [p \in Insts |-> {}],
             ret |-> [p \in Insts |-> "none"],
             skipped |-> [p \in Insts |-> FALSE],
             wrote |-> [p \in Insts |-> FALSE],
             expected |-> InitialCreds]
    /\ CollIdle
    /\ AsrIdle
    /\ SaveIdle
    /\ BatchIdle
    /\ ScanIdle
    /\ LoadIdle
    /\ PipeIdle
    /\ ReadIdle
    /\ PickIdle
    /\ LlmIdle

\* lines 104-208: the credentials cannot be read, the refresh is not needed,
\* or the request fails: the function returns without touching the file
RefreshReturns(p, ret) ==
    /\ ck.at[p] = "start"
    /\ ck' = [ck EXCEPT !.at[p] = "done", !.ret[p] = ret]
    /\ UNCHANGED nonCredVars

\* lines 186-231: the refresh succeeded and gave new values for `new`
RefreshOk(p, new) ==
    /\ ck.at[p] = "start"
    /\ ck' = [ck EXCEPT !.at[p] = "lock", !.new[p] = new]
    /\ UNCHANGED nonCredVars

\* lines 234-240: the lock is taken, or the function returns False
TryLock(p) ==
    /\ ck.at[p] = "lock"
    /\ LET r == flock_nb(ck.lock, p)
       IN  ck' = IF r.ok
                 THEN [ck EXCEPT !.lock = r.lock, !.at[p] = "read"]
                 ELSE [ck EXCEPT !.at[p] = "done", !.ret[p] = "False",
                                 !.skipped[p] = TRUE]
    /\ UNCHANGED nonCredVars

\* line 242: all_creds = json.load(open(CREDS_PATH))
ReadCreds(p) ==
    /\ ck.at[p] = "read"
    /\ ck' = [ck EXCEPT !.at[p] = "write", !.all_creds[p] = ck.file]
    /\ UNCHANGED nonCredVars

\* lines 243-262: the document is updated, written to a temporary file and
\* moved over credentials.json
WriteCreds(p) ==
    /\ ck.at[p] = "write"
    /\ ck' = [ck EXCEPT
                !.at[p] = "unlock",
                !.file = UpdateCreds(ck.all_creds[p], ck.new[p], p),
                !.expected = UpdateCreds(ck.expected, ck.new[p], p),
                !.wrote[p] = TRUE,
                !.ret[p] = "True"]
    /\ UNCHANGED nonCredVars

\* lines 242-268: reading or writing raised: nothing is moved over the file
\* and the function returns False
RewriteRaises(p) ==
    /\ ck.at[p] \in {"read", "write"}
    /\ ck' = [ck EXCEPT !.at[p] = "unlock", !.ret[p] = "False"]
    /\ UNCHANGED nonCredVars

\* lines 269-271: finally, the lock is released
Unlock(p) ==
    /\ ck.at[p] = "unlock"
    /\ ck' = [ck EXCEPT !.at[p] = "done", !.lock = 0]
    /\ UNCHANGED nonCredVars

CredNext ==
    \E p \in Insts :
        \/ \E ret \in {"True", "False"} : RefreshReturns(p, ret)
        \/ \E new \in SUBSET CredFields : RefreshOk(p, new)
        \/ TryLock(p)
        \/ ReadCreds(p)
        \/ WriteCreds(p)
        \/ RewriteRaises(p)
        \/ Unlock(p)

SpecCreds == CredInit /\ [][CredNext]_vars

\* the instances between taking the lock and releasing it
InSection == {p \in Insts : ck.at[p] \in {"read", "write", "unlock"}}

\* C27: of two pipeline instances that reach the rewrite of the credential
\* file together at most one is inside the read-modify-write section at any
\* time; the instance that cannot take the lock writes nothing to the file
\* and returns False; every field of the file holds what the last instance
\* that had a value for it wrote, so no update is undone by a stale read.
C27_RewriteIsExclusive ==
    /\ Cardinality(InSection) <= 1
    /\ \A p \in InSection : ck.lock = p
    /\ \A p \in Insts : ck.skipped[p] => ~ck.wrote[p] /\ ck.ret[p] = "False"
    /\ ck.file = ck.expected

\* instance 2 was refused the lock while instance 1, which has new values,
\* was between its read and its write
C27_Witness ==
    /\ ck.at[1] = "write"
    /\ ck.new[1] # {}
    /\ ck.at[2] = "done"
    /\ ck.skipped[2]
    /\ ck.new[2] # {}


(***************************************************************************)
(* The quota check of main() in step3_asr_groq.py (lines 170-186) for one  *)
(* video, over a pool of three keys.                                       *)
(***************************************************************************)
Pool3 == << [head |-> "gsk_one_", tail |-> "aaaaaaaa"],
            [head |-> "gsk_two_", tail |-> "bbbbbbbb"],
            [head |-> "gsk_3rd_", tail |-> "cccccccc"] >>

Pool3Hashes == {key_hash(Pool3[i]) : i \in 1..Len(Pool3)}

\* what st["key_usage"] may hold for a key: no entry, or counters that leave
\* room for every video, for the shorter one only, or for none
PickUsages ==
    {NoUsage} \cup {Usage(h, d) : h \in {0, 4800, 6000}, d \in {0, 23800}}

PickInit ==
    /\ pk \in {[pc |-> "check", key_usage |-> u, key_usage0 |-> u,
                current_key_idx |-> c, cur0 |-> c, dur |-> d, t |-> t]
               : u \in [Pool3Hashes -> PickUsages], c \in 0..(Len(Pool3) - 1),
                 d \in {1200, 1800}, t \in {0, HOUR}}
    /\ CollIdle
    /\ AsrIdle
    /\ SaveIdle
    /\ BatchIdle
    /\ ScanIdle
    /\ LoadIdle
    /\ PipeIdle
    /\ ReadIdle
    /\ LlmIdle
    /\ CredIdle

\* lines 172-186: the current key has quota for the video, or the pool is
\* searched from the key after it: rotation, or "All keys exhausted"
PickCheckQuota ==
    /\ pk.pc = "check"
    /\ LET h  == key_hash(Pool3[pk.current_key_idx + 1])
           ku == get_key_usage(pk.key_usage, h, pk.t)
       IN  IF key_has_quota(ku[h], pk.dur)
           THEN pk' = [pk EXCEPT !.pc = "call", !.key_usage = ku]
           ELSE LET r == FindIn(Pool3, ku, pk.current_key_idx + 1, pk.dur, pk.t, 0)
                IN  IF r.idx # None
                    THEN pk' = [pk EXCEPT !.pc = "rotated",
                                          !.key_usage = r.key_usage,
                                          !.current_key_idx = r.idx]
                    ELSE pk' = [pk EXCEPT !.pc = "halted",
                                          !.key_usage = r.key_usage]
    /\ UNCHANGED nonPickVars

PickNext == PickCheckQuota

SpecPick == PickInit /\ [][PickNext]_vars

\* key k of the pool has room in both windows for the video, as the usage map
\* stood before the check and at the time of the check
Headroom(k) ==
    LET h == key_hash(Pool3[k + 1])
    IN  key_has_quota(get_key_usage(pk.key_usage0, h, pk.t)[h], pk.dur)

\* the place of key k in the cyclic order that starts after the current key
Rank(k) == (k + Len(Pool3) - pk.cur0 - 1) % Len(Pool3)

\* C28: when the current key lacks headroom for the video, the key chosen is
\* the first one, in the cyclic order of the pool starting at the position
\* after the current key, whose hourly and daily headroom both cover the
\* video's duration; no key with headroom earlier in that order is passed
\* over, and the run halts only when no key has headroom.
C28_FirstInCyclicOrder ==
    /\ pk.pc = "rotated"
          => /\ ~Headroom(pk.cur0)
             /\ Headroom(pk.current_key_idx)
             /\ \A k \in 0..(Len(Pool3) - 1) :
                   Rank(k) < Rank(pk.current_key_idx) => ~Headroom(k)
    /\ pk.pc = "halted" => \A k \in 0..(Len(Pool3) - 1) : ~Headroom(k)
    /\ pk.pc = "call" => Headroom(pk.cur0) /\ pk.current_key_idx = pk.cur0

\* from the second key the search passed the third key, which has hourly
\* room but no daily room, and took the first
C28_Witness ==
    /\ pk.pc = "rotated"
    /\ pk.cur0 = 1
    /\ pk.current_key_idx = 0
    /\ pk.key_usage0["cccccccc"] = Usage(0, 23800)
    /\ pk.dur = 1800


\* C29: after a rate-limit rejection received while using key k the key used
\* for the next backend call is never k itself: the run rotates to another
\* key, or halts when no other key has headroom.
C29_RateLimitedKeyNotReused ==
    [][(apc = "transcribe" /\ asr'.last = "rate_limit" /\ apc' = "loop")
          => asr'.current_key_idx # asr.current_key_idx]_vars


\* the video at hand ends this step with the outcome o
EndsWith(o) ==
    /\ apc \in {"download", "transcribe"}
    /\ apc' \in {"loop", "final"}
    /\ asr'.last # "rate_limit"
    /\ asr'.st.processed[Cur.bvid] = o

\* the usage entries of the keys other than the one in use are left alone
OtherKeysUnchanged ==
    \A h \in KeyHashes \ {kh} : asr'.st.key_usage[h] = asr.st.key_usage[h]

\* C30 as stated: on an outcome ok or no_speech the actual cost is added to
\* the hourly and the daily counter of the key that served the call, as they
\* stood before; no other key's counters change; on error_transcribe and
\* error_download no counter changes.
C30_ActualAddedToCounters ==
    [][/\ (EndsWith("ok") \/ EndsWith("no_speech"))
            => /\ \E actual \in Actuals(Cur.duration) :
                     /\ asr'.st.key_usage[kh].hourly_audio
                           = asr.st.key_usage[kh].hourly_audio + actual
                     /\ asr'.st.key_usage[kh].daily_audio
                           = asr.st.key_usage[kh].daily_audio + actual
               /\ OtherKeysUnchanged
       /\ (EndsWith("error_transcribe") \/ EndsWith("error_download"))
            => asr'.st.key_usage = asr.st.key_usage]_vars

\* a counter as it stands at time t: zero when its window has elapsed
HourlyAt(ku, t) == IF t - ku.hour_start >= HOUR THEN 0 ELSE ku.hourly_audio

DailyAt(ku, t) == IF t - ku.day_start >= DAY THEN 0 ELSE ku.daily_audio

\* C30: on an outcome ok or no_speech the actual cost is added to the hourly
\* and the daily counter of the key that served the call, each counter being
\* first set to zero when its window elapsed before the call returned; no
\* other key's counters change; on error_transcribe and error_download no
\* counter changes.
C30_ActualAddedAfterWindowReset ==
    [][/\ (EndsWith("ok") \/ EndsWith("no_speech"))
            => /\ \E actual \in Actuals(Cur.duration) :
                     /\ asr'.st.key_usage[kh].hourly_audio
                           = HourlyAt(asr.st.key_usage[kh], now) + actual
                     /\ asr'.st.key_usage[kh].daily_audio
                           = DailyAt(asr.st.key_usage[kh], now) + actual
               /\ OtherKeysUnchanged
       /\ (EndsWith("error_transcribe") \/ EndsWith("error_download"))
            => asr'.st.key_usage = asr.st.key_usage]_vars

\* a video got its text after the hourly window of the key in use was over:
\* the hourly counter holds this call alone, the daily counter holds more
C30_Witness ==
    /\ apc = "loop"
    /\ asr.last = "text"
    /\ now >= HOUR
    /\ asr.st.key_usage[kh].hour_start = now
    /\ asr.st.key_usage[kh].day_start = 0
    /\ asr.st.key_usage[kh].hourly_audio > 0
    /\ asr.st.key_usage[kh].daily_audio > asr.st.key_usage[kh].hourly_audio
    /\ \E h \in KeyHashes \ {kh} : asr.st.key_usage[h].daily_audio > 0


\* C31: a backend call that returns empty text gives the video the status
\* no_speech, and a backend error that is not a rate-limit rejection gives it
\* error_transcribe; in both cases the run goes on to the next video of the
\* queue and the streak of failed downloads is not incremented.
C31_SoftAndErrorOutcomes ==
    [][/\ (apc = "transcribe" /\ asr'.last = "empty")
            => /\ asr'.st.processed[Cur.bvid] = "no_speech"
               /\ apc' = "loop"
               /\ asr'.idx = asr.idx + 1
               /\ asr'.consecutive_dl_fails = asr.consecutive_dl_fails
       /\ (apc = "transcribe" /\ asr'.last = "error")
            => /\ asr'.st.processed[Cur.bvid] = "error_transcribe"
               /\ apc' = "loop"
               /\ asr'.idx = asr.idx + 1
               /\ asr'.consecutive_dl_fails = asr.consecutive_dl_fails]_vars

\* the first video failed in the backend, the second came back empty, and
\* the run is about to take the third
C31_Witness ==
    /\ apc = "loop"
    /\ actr.kills = 0
    /\ asr.idx = 3
    /\ asr.last = "empty"
    /\ asr.st.processed[Vids[1].bvid] = "error_transcribe"
    /\ asr.st.processed[Vids[2].bvid] = "no_speech"
    /\ asr.consecutive_dl_fails = 0


\* the positions of a run of the batch processor
InRun == {"loop", "download", "transcribe", "final"}

\* C32: when the download of a video fails the video is given the status
\* error_download and the checkpoint is written at once; no backend call is
\* made for the video and the run does not take the video again: the run
\* moves to the next video or to its end, and its position in the queue
\* never goes back.
C32_DownloadFailureIsTerminal ==
    [][/\ (apc = "download" /\ apc' \in {"loop", "final"})
            => /\ asr'.st.processed[Cur.bvid] = "error_download"
               /\ status_file' = save_status(asr'.st)
               /\ status_file'.processed[Cur.bvid] = "error_download"
               /\ apc' = "loop" => asr'.idx = asr.idx + 1
       /\ (apc' = "transcribe" /\ apc # "transcribe")
            => apc = "download" /\ asr'.idx = asr.idx
       /\ (apc \in InRun /\ apc' \in InRun) => asr'.idx >= asr.idx
       /\ (apc = "final") => apc' \in {"final", "done", "idle"}]_vars

\* the download of the first video failed: its status is in the checkpoint
\* and the run is about to take the second video
C32_Witness ==
    /\ apc = "loop"
    /\ actr.kills = 0
    /\ actr.runs = 1
    /\ asr.idx = 2
    /\ asr.consecutive_dl_fails = 1
    /\ asr.st.processed[Vids[1].bvid] = "error_download"
    /\ status_file.processed[Vids[1].bvid] = "error_download"


\* C33: in incremental mode an item read from a page is added to the run's
\* list of new items exactly when its identifier is not in the known-set or
\* its insertion marker exceeds the cursor.
C33_AddedIffNewOrAboveCursor ==
    (sc.pc \notin {"idle", "fetch"} /\ sc.incremental)
        => \A i \in 1..Len(sc.medias) :
              sc.medias[i].bvid \in Bvids(sc.ff.videos)
                 <=> \/ sc.medias[i].bvid \notin sc.known
                     \/ sc.medias[i].fav_time > sc.cutoff_fav_time


(***************************************************************************)
(* get_key_usage (lines 76-91 of step3_asr_groq.py) called for one key at  *)
(* one time, on any usage map.                                             *)
(***************************************************************************)
\* the entries of st["key_usage"]: none, or counters with windows that
\* started at 0 or at 3000
UsageEntries ==
    {NoUsage} \cup
    [present : {TRUE}, hourly_audio : {0, 1200}, hour_start : {0, 3000},
     daily_audio : {1200, 2400}, day_start : {0, 3000}]

\* time.time() at the call: around the ends of the windows
UsageTimes ==
    {3000, HOUR - 1, HOUR, HOUR + 2999, HOUR + 3000,
     DAY - 1, DAY, DAY + 2999, DAY + 3000}

UsageInit ==
    /\ pk \in {[pc |-> "get", key_usage |-> u, key_usage0 |-> u, h |-> h, t |-> t]
               : u \in [KeyHashes -> UsageEntries], h \in KeyHashes,
                 t \in UsageTimes}
    /\ CollIdle
    /\ AsrIdle
    /\ SaveIdle
    /\ BatchIdle
    /\ ScanIdle
    /\ LoadIdle
    /\ PipeIdle
    /\ ReadIdle
    /\ LlmIdle
    /\ CredIdle

\* ku = get_key_usage(st, kh)
UsageGet ==
    /\ pk.pc = "get"
    /\ pk' = [pk EXCEPT !.pc = "got",
                        !.key_usage = get_key_usage(pk.key_usage, pk.h, pk.t)]
    /\ UNCHANGED nonPickVars

UsageNext == UsageGet

SpecUsage == UsageInit /\ [][UsageNext]_vars

\* C34: for a key, the hourly counter is reset to zero and its window start
\* set to the current time exactly when at least 3600 seconds have passed
\* since its hourly window start, and the daily counter likewise after 86400
\* seconds; resetting one window leaves the other window's counter and start
\* unchanged, and every other key's entry is unchanged.
C34_WindowsResetIndependently ==
    (pk.pc = "got" /\ pk.key_usage0[pk.h].present)
        => LET old == pk.key_usage0[pk.h]
               new == pk.key_usage[pk.h]
           IN  /\ IF pk.t - old.hour_start >= 3600
                  THEN new.hourly_audio = 0 /\ new.hour_start = pk.t
                  ELSE /\ new.hourly_audio = old.hourly_audio
                       /\ new.hour_start = old.hour_start
               /\ IF pk.t - old.day_start >= 86400
                  THEN new.daily_audio = 0 /\ new.day_start = pk.t
                  ELSE /\ new.daily_audio = old.daily_audio
                       /\ new.day_start = old.day_start
               /\ \A k \in KeyHashes \ {pk.h} : pk.key_usage[k] = pk.key_usage0[k]

\* the hour of the key was over and its day was not: the hourly counter is
\* zero and the daily counter is what it was
C34_Witness ==
    /\ pk.pc = "got"
    /\ pk.t = HOUR + 3000
    /\ pk.key_usage0[pk.h] =
         [present |-> TRUE, hourly_audio |-> 1200, hour_start |-> 3000,
          daily_audio |-> 2400, day_start |-> 3000]
    /\ pk.key_usage[pk.h] =
         [present |-> TRUE, hourly_audio |-> 0, hour_start |-> HOUR + 3000,
          daily_audio |-> 2400, day_start |-> 3000]


(***************************************************************************)
(* read_transcript of step5_generate_docs.py, step4_5_filter.py and        *)
(* step4_7_polish.py for one video, over the files of the three tiers.     *)
(***************************************************************************)
\* what <tier>/<bvid>.txt holds: no file, no byte, white space only, a text
\* under 50 characters, a text with one of INVALID_MARKERS, a transcript
FileKinds == {"missing", "empty", "blank", "short", "marker", "text"}

Tiers == {"polished", "subtitle", "asr"}

\* f.read().strip() is the empty string
StripsToEmpty(kind) == kind \in {"empty", "blank"}

NoTranscript == [text |-> "", tier |-> "none", source |-> "none"]

\* the text of the file of tier d, returned with the label `source`
TextOf(d, source) == [text |-> "text", tier |-> d, source |-> source]

RECURSIVE read_transcript_docs(_, _)
\* step5_generate_docs.py, lines 40-50, from directory k of the list on
read_transcript_docs(files, dirs) ==
    IF dirs = <<>> THEN NoTranscript
    ELSE LET d == Head(dirs)
         IN  IF files[d] # "missing" /\ ~StripsToEmpty(files[d])
             THEN TextOf(d, d)
             ELSE read_transcript_docs(files, Tail(dirs))

RECURSIVE read_transcript_filter(_, _)
\* step4_5_filter.py, lines 53-59: the first file that exists is returned as
\* it is read; main() takes an empty string for "no transcript"
read_transcript_filter(files, dirs) ==
    IF dirs = <<>> THEN NoTranscript
    ELSE LET d == Head(dirs)
         IN  IF files[d] # "missing"
             THEN IF files[d] = "empty" THEN NoTranscript ELSE TextOf(d, "none")
             ELSE read_transcript_filter(files, Tail(dirs))

RECURSIVE read_transcript_polish(_, _)
\* step4_7_polish.py, lines 48-60: the first file that exists decides
read_transcript_polish(files, dirs) ==
    IF dirs = <<>> THEN NoTranscript
    ELSE LET d == Head(dirs)
         IN  IF files[d] # "missing"
             THEN IF files[d] \in {"marker", "empty", "blank", "short"}
                  THEN NoTranscript ELSE TextOf(d, "none")
             ELSE read_transcript_polish(files, Tail(dirs))

\* the directories a stage goes through, in its order
DirsOf(stage) ==
    IF stage = "docs" THEN <<"polished", "subtitle", "asr">>
    ELSE <<"subtitle", "asr">>

ReadInit ==
    /\ rt \in {[pc |-> "call", stage |-> s, files |-> f, result |-> NoTranscript]
               : s \in {"docs", "filter", "polish"}, f \in [Tiers -> FileKinds]}
    /\ CollIdle
    /\ AsrIdle
    /\ SaveIdle
    /\ BatchIdle
    /\ ScanIdle
    /\ LoadIdle
    /\ PipeIdle
    /\ LlmIdle
    /\ CredIdle
    /\ PickIdle

\* transcript = read_transcript(bvid)
ReadTranscript ==
    /\ rt.pc = "call"
    /\ rt' = [rt EXCEPT
                !.pc = "read",
                !.result =
                    CASE rt.stage = "docs" ->
                           read_transcript_docs(rt.files, DirsOf(rt.stage))
                      [] rt.stage = "filter" ->
                           read_transcript_filter(rt.files, DirsOf(rt.stage))
                      [] OTHER ->
                           read_transcript_polish(rt.files, DirsOf(rt.stage))]
    /\ UNCHANGED nonReadVars

ReadNext == ReadTranscript

SpecRead == ReadInit /\ [][ReadNext]_vars

\* the tiers of the stage whose file has content that is not empty
WithContent(stage) ==
    {i \in 1..Len(DirsOf(stage)) :
        rt.files[DirsOf(stage)[i]] \notin {"missing", "empty", "blank"}}

\* C35: in every stage that looks up a transcript the text returned is that
\* of the highest-priority tier whose content is not empty, with that tier's
\* label where a label is reported: an empty file in a higher tier never
\* hides a transcript in a lower tier.
C35_FirstNonEmptyTierWins ==
    rt.pc = "read"
        => IF WithContent(rt.stage) = {}
           THEN rt.result = NoTranscript
           ELSE LET best == CHOOSE i \in WithContent(rt.stage) :
                               \A j \in WithContent(rt.stage) : i <= j
                IN  /\ rt.result.tier = DirsOf(rt.stage)[best]
                    /\ rt.stage = "docs" => rt.result.source = DirsOf(rt.stage)[best]


\* every counter of a usage map is within its budget
WithinBudget(key_usage) ==
    \A k \in KeyHashes :
        /\ key_usage[k].hourly_audio <= HOURLY_LIMIT_PER_KEY
        /\ key_usage[k].daily_audio <= DAILY_LIMIT_PER_KEY

\* the duration the backend reported in this step is at most the duration
\* on record for the video
ActualWithinEstimate ==
    (apc = "transcribe" /\ asr'.last \in {"text", "empty"})
        => asr'.st.key_usage[kh].daily_audio
               <= DailyAt(get_key_usage(asr.st.key_usage, kh, now)[kh], now)
                  + Cur.duration

\* C36: when every counter in memory and in the checkpoint file is within
\* budget, a step in which the backend reports no more than the duration on
\* record leaves every hourly counter at most the hourly budget and every
\* daily counter at most the daily budget, in memory and in the file; so a
\* batch that loads counters within budget and is never reported more than
\* the estimate keeps every counter within budget in every state.
C36_CountersWithinBudget ==
    [][(/\ WithinBudget(asr.st.key_usage)
        /\ WithinBudget(status_file.key_usage)
        /\ ActualWithinEstimate)
           => /\ WithinBudget(asr'.st.key_usage)
              /\ WithinBudget(status_file'.key_usage)]_vars

\* a charge has brought a key's hourly counter to exactly the hourly budget
C36_Witness ==
    /\ apc = "loop"
    /\ asr.last = "text"
    /\ WithinBudget(asr.st.key_usage)
    /\ WithinBudget(status_file.key_usage)
    /\ \E k \in KeyHashes :
           asr.st.key_usage[k].hourly_audio = HOURLY_LIMIT_PER_KEY


(***************************************************************************)
(* The collector run again in the default mode after a run that the        *)
(* remote ended with code -101, over a remote that is not edited           *)
(* (step1_fetch_metadata.py).  One folder is long enough for the stop      *)
(* streak of fetch_folder to be reached before its last page.              *)
(***************************************************************************)
LongListing == <<"BV4", "BV3", "BV2", "BV1">>

ResumeListings == {<<>>, <<"BV5">>, LongListing}

ResumeInit ==
    /\ remote \in [FolderIds -> ResumeListings]
    /\ output_file = NoOutput
    /\ progress_file = NoProgress
    /\ last_scan_file = NoLastScan
    /\ cpc = "idle"
    /\ m = IdleMain
    /\ ff = NoLocals
    /\ runs = 0
    /\ edits = 0
    /\ AsrIdle
    /\ SaveIdle
    /\ BatchIdle
    /\ ScanIdle
    /\ LoadIdle
    /\ PipeIdle
    /\ ReadIdle
    /\ PickIdle
    /\ CredIdle
    /\ LlmIdle

\* every run is started without --full and gets the list of folders; a
\* request for a page is answered with code 0 or with code -101
ResumeNext ==
    \/ StartRun(FALSE, TRUE)
    \/ EmptyFolder
    \/ EnterFolder
    \/ FetchPageOk
    \/ FetchPageAuth
    \/ AfterFolder
    \/ FoldersDone
    \/ Finish

SpecResume == ResumeInit /\ [][ResumeNext]_vars

\* The collector takes its next step whenever it has one.
SpecResumeLive == SpecResume /\ WF_vars(ResumeNext)

\* the first run has ended on code -101 after it had collected videos of the
\* folder it was reading
AbortedMidBucket ==
    /\ cpc = "idle"
    /\ runs = 1
    /\ output_file.exists
    /\ output_file.cookie_expired
    /\ progress_file.exists
    /\ \E k \in 1..Len(output_file.videos) :
           output_file.videos[k].folder = progress_file.folder_idx

\* a later run has ended on code -101 as well
AbortedAgain == runs > 1 /\ cpc = "idle" /\ output_file.cookie_expired

AllRemoteKnown ==
    cpc = "idle" /\ RemoteBvids \subseteq Bvids(output_file.videos)

StageKeys ==
    {"cookie_refresh", "step1", "step2", "step3", "step4a", "step4b", "step5",
     "step6_mdx", "step7_git", "step8_deploy"}

\* results = {}
NoResults == [k \in StageKeys |-> "unset"]

\* str(ok) for the value stored under a key
BoolStr(ok) == IF ok THEN "true" ELSE "false"

\* all(results.values())
AllOk(results) == \A k \in StageKeys : results[k] # "false"

\* write_summary followed by the return of main
Exit(p, code) ==
    [p EXCEPT !.pc = "exited",
              !.summary = [written |-> TRUE, results |-> p.results],
              !.exit = code]

\* lines 444-446, 454-456: log, write_summary, return 1
ExitAfterFailure(p) == Exit(p, "1")

\* an exception leaves main: no summary, the interpreter reports the traceback
Raised(p) == [p EXCEPT !.pc = "exited", !.exit = "raised"]

PipeInit ==
    /\ pl = [pc |-> "step0", results |-> NoResults, ran |-> {},
             summary |-> [written |-> FALSE, results |-> NoResults],
             exit |-> "running"]
    /\ CollIdle
    /\ AsrIdle
    /\ SaveIdle
    /\ BatchIdle
    /\ ScanIdle
    /\ LoadIdle
    /\ ReadIdle
    /\ PickIdle
    /\ CredIdle
    /\ LlmIdle

\* the stage `key` has run and answered ok
Ran(p, key, ok) ==
    [p EXCEPT !.results[key] = BoolStr(ok), !.ran = @ \cup {key}]

\* the stage `key` is skipped with the result `ok`
Skipped(p, key, ok) == [p EXCEPT !.results[key] = BoolStr(ok)]

\* lines 433-436: refresh_cookie; a failure is logged and the run goes on
Step0(ok) ==
    /\ pl.pc = "step0"
    /\ pl' = [Ran(pl, "cookie_refresh", ok) EXCEPT !.pc = "step1"]
    /\ UNCHANGED nonPipeVars

\* lines 438-446
Step1(ok) ==
    /\ pl.pc = "step1"
    /\ pl' = IF ok THEN [Ran(pl, "step1", ok) EXCEPT !.pc = "step2"]
             ELSE ExitAfterFailure(Ran(pl, "step1", ok))
    /\ UNCHANGED nonPipeVars

\* lines 448-456
Step2(ok) ==
    /\ pl.pc = "step2"
    /\ pl' = IF ok THEN [Ran(pl, "step2", ok) EXCEPT !.pc = "step3"]
             ELSE ExitAfterFailure(Ran(pl, "step2", ok))
    /\ UNCHANGED nonPipeVars

\* lines 458-469: prepare_asr_queue returns True, returns False, or raises
\* (atomic_write_json re-raises what the write raised)
Step3(has_queue, ok) ==
    /\ pl.pc = "step3"
    /\ pl' = CASE has_queue = "raise" -> Raised(pl)
               [] has_queue = "true"   -> [Ran(pl, "step3", ok) EXCEPT !.pc = "step4"]
               [] OTHER           -> [Skipped(pl, "step3", TRUE) EXCEPT !.pc = "step4"]
    /\ UNCHANGED nonPipeVars

\* lines 471-487: has_new_transcripts returns True, returns False, or raises
\* (json.load of a progress file, lines 357-360, is not in a try)
Step4(new, ok_a, ok_b) ==
    /\ pl.pc = "step4"
    /\ pl' = CASE new = "raise" -> Raised(pl)
               [] new = "true"  ->
                    [Ran(Ran(pl, "step4a", ok_a), "step4b", ok_b) EXCEPT !.pc = "step5"]
               [] OTHER         ->
                    [Skipped(Skipped(pl, "step4a", TRUE), "step4b", TRUE)
                       EXCEPT !.pc = "step5"]
    /\ UNCHANGED nonPipeVars

\* lines 489-497: results.get("step4a", True)
Step5(ok) ==
    /\ pl.pc = "step5"
    /\ pl' = IF pl.results["step4a"] # "false"
             THEN [Ran(pl, "step5", ok) EXCEPT !.pc = "step6"]
             ELSE [Skipped(pl, "step5", FALSE) EXCEPT !.pc = "step6"]
    /\ UNCHANGED nonPipeVars

\* lines 499-507: results.get("step5")
Step6(ok) ==
    /\ pl.pc = "step6"
    /\ pl' = IF pl.results["step5"] = "true"
             THEN [Ran(pl, "step6_mdx", ok) EXCEPT !.pc = "step7"]
             ELSE [Skipped(pl, "step6_mdx", FALSE) EXCEPT !.pc = "step7"]
    /\ UNCHANGED nonPipeVars

\* lines 509-518: git_push; what it raises is caught and counts as False
Step7(ok) ==
    /\ pl.pc = "step7"
    /\ pl' = IF pl.results["step6_mdx"] = "true"
             THEN [Ran(pl, "step7_git", ok) EXCEPT !.pc = "step8"]
             ELSE [Skipped(pl, "step7_git", FALSE) EXCEPT !.pc = "step8"]
    /\ UNCHANGED nonPipeVars

\* lines 520-525
Step8(ok) ==
    /\ pl.pc = "step8"
    /\ pl' = IF pl.results["step7_git"] = "true"
             THEN [Ran(pl, "step8_deploy", ok) EXCEPT !.pc = "summary"]
             ELSE [Skipped(pl, "step8_deploy", FALSE) EXCEPT !.pc = "summary"]
    /\ UNCHANGED nonPipeVars

\* lines 527-528
Summary ==
    /\ pl.pc = "summary"
    /\ pl' = Exit(pl, IF AllOk(pl.results) THEN "0" ELSE "1")
    /\ UNCHANGED nonPipeVars

PipeNext ==
    \/ \E ok \in BOOLEAN : Step0(ok)
    \/ \E ok \in BOOLEAN : Step1(ok)
    \/ \E ok \in BOOLEAN : Step2(ok)
    \/ \E has_queue \in {"true", "false", "raise"}, ok \in BOOLEAN : Step3(has_queue, ok)
    \/ \E new \in {"true", "false", "raise"}, ok_a, ok_b \in BOOLEAN :
           Step4(new, ok_a, ok_b)
    \/ \E ok \in BOOLEAN : Step5(ok)
    \/ \E ok \in BOOLEAN : Step6(ok)
    \/ \E ok \in BOOLEAN : Step7(ok)
    \/ \E ok \in BOOLEAN : Step8(ok)
    \/ Summary

SpecPipe == PipeInit /\ [][PipeNext]_vars

\* the stages after metadata collection and subtitle extraction
LaterStages(key) ==
    StageKeys \ (IF key = "step1" THEN {"cookie_refresh", "step1"}
                 ELSE {"cookie_refresh", "step1", "step2"})

\* no later stage runs after step1 or step2 failed; step5 does not run after
\* step4a failed; step6, step7 and step8 run only after the stage before them
\* succeeded
StagesGated ==
    /\ \A key \in {"step1", "step2"} :
           pl.results[key] = "false" => pl.ran \cap LaterStages(key) = {}
    /\ pl.results["step4a"] = "false" => "step5" \notin pl.ran
    /\ "step6_mdx" \in pl.ran => pl.results["step5"] = "true"
    /\ "step7_git" \in pl.ran => pl.results["step6_mdx"] = "true"
    /\ "step8_deploy" \in pl.ran => pl.results["step7_git"] = "true"

\* main has been left, by a return or by an exception
Exited == pl.pc = "exited"

\* C38: in one run of the pipeline no later stage runs after step1 or step2
\* failed, step5 never runs after step4a failed, step6 runs only after step5
\* succeeded, step7 only after step6 succeeded, step8 only after step7
\* succeeded, and whenever main has been left the summary has been written.
C38_GatedAndSummarised ==
    /\ StagesGated
    /\ Exited => pl.summary.written

\* main has returned with the summary of its results written
SummaryOnReturn ==
    (Exited /\ pl.exit \in {"0", "1"})
        => pl.summary = [written |-> TRUE, results |-> pl.results]

=============================================================================
